---- MODULE Spec2Model ----
(***************************************************************************)
(* A model of dsv's GDB remote-serial client: the packet transport         *)
(* (core/src/gdb/stream.rs) and the protocol client built on it            *)
(* (core/src/gdb/client.rs).                                               *)
(*                                                                         *)
(* Bytes are the integers 0..255, byte strings are sequences of bytes.     *)
(* The peer (the debug stub) and the operating system are the environment: *)
(* every socket call draws its outcome from a small set.                   *)
(***************************************************************************)
EXTENDS Integers, Sequences, FiniteSets, TLC

(***************************************************************************)
(* Bounds of the model.                                                    *)
(***************************************************************************)
MaxPayload == 3      \* longest payload of the short frames the peer sends
MaxLen == 3          \* longest buffer read_slice / write_slice is called with
MaxPacketSize == 8   \* largest negotiated packet size
MaxExchanges == 4    \* exchanges of one operation that are followed

(***************************************************************************)
(* Program constants: the protocol's marker bytes and the read buffer.     *)
(***************************************************************************)
CH_DOLLAR == 36      \* b'$'
CH_HASH == 35        \* b'#'
CH_PLUS == 43        \* b'+'
CH_E == 69           \* "E"
BUF_LEN == 128       \* let mut buf = [0; 128]
CH_COMMA == 44       \* ','
CH_COLON == 58       \* ':'
CH_SPACE == 32       \* ' '
CH_LOWER_M == 109    \* 'm'
CH_UPPER_M == 77     \* 'M'
CH_LOWER_C == 99     \* 'c'
CH_LOWER_S == 115    \* 's'

\* Option: None is the empty sequence, Some(x) the sequence of x alone
None == <<>>
Some(x) == <<x>>

(***************************************************************************)
(* Byte-string helpers.                                                    *)
(***************************************************************************)
Min(a, b) == IF a <= b THEN a ELSE b

\* v[a..b], 1-based, empty when b < a
Slice(v, a, b) == [i \in 1..(b - a + 1) |-> v[a + i - 1]]

\* the wrapping sum of p[lo..hi]; halving keeps the evaluation shallow, and
\* wrapping addition is associative, so the order of the folding is immaterial
RECURSIVE sum_range(_, _, _)
sum_range(p, lo, hi) ==
    IF lo > hi THEN 0
    ELSE IF lo = hi THEN p[lo] % 256
    ELSE LET mid == (lo + hi) \div 2
         IN  (sum_range(p, lo, mid) + sum_range(p, mid + 1, hi)) % 256

\* iter().fold(0u8, |acc, &b| acc.wrapping_add(b))
wrapping_sum(p) == sum_range(p, 1, Len(p))

\* one digit of the {:x} formatting: lowercase
hex_digit(n) == IF n < 10 THEN 48 + n ELSE 87 + n

\* format!("{:02x}", byte)
fmt_02x(b) == <<hex_digit(b \div 16), hex_digit(b % 16)>>

\* format!("{:x}", n): no padding, "0" for zero
RECURSIVE fmt_x(_)
fmt_x(n) ==
    IF n < 16 THEN <<hex_digit(n)>> ELSE fmt_x(n \div 16) \o <<hex_digit(n % 16)>>

\* u8::is_ascii_hexdigit
is_ascii_hexdigit(c) == c \in (48..57) \cup (65..70) \cup (97..102)

\* crate::hex_char_to_byte, on hexadecimal digits
hex_char_to_byte(c) ==
    IF c \in 48..57 THEN c - 48
    ELSE IF c \in 97..102 THEN c - 87
    ELSE IF c \in 65..70 THEN c - 55
    ELSE 0

\* String::from_utf8 on the bytes of this model: ASCII is valid, and the one
\* byte above it that the peer may send, 0xff, is valid in no position
from_utf8_ok(p) == \A i \in 1..Len(p) : p[i] < 128

(***************************************************************************)
(* Results of the transport calls.  A call returns what Rust returns       *)
(* (status, error, value) together with its effects: whether the handle is *)
(* still held (conn), the bytes written (tx), the socket reads made and    *)
(* the framing violation, if any, that made the call drop the socket.      *)
(***************************************************************************)
Ret(status, err, val, conn, tx, nread) ==
    [status |-> status, err |-> err, val |-> val, conn |-> conn, tx |-> tx,
     nread |-> nread, violation |-> "none"]

\* a disconnect that shuts the socket down through a borrowed handle and takes
\* it only afterwards: a failed shutdown leaves the handle in place
disconnect_keeps_handle(conn, shutOk) ==
    IF conn /\ ~shutOk
    THEN Ret("Err", "ShutdownFailed", <<>>, TRUE, <<>>, 0)
    ELSE Ret("Ok", "none", <<>>, FALSE, <<>>, 0)

\* GdbStream::disconnect: take() the handle, then shutdown(Both)?
disconnect(conn, shutOk) ==
    IF conn /\ ~shutOk
    THEN Ret("Err", "ShutdownFailed", <<>>, FALSE, <<>>, 0)
    ELSE Ret("Ok", "none", <<>>, FALSE, <<>>, 0)

\* is_connected as it would be if it did not look at the stream
is_connected_always(conn) == TRUE

\* GdbStream::is_connected
is_connected(conn) == conn

\* GdbStream::send_ack
send_ack(conn, writeOk) ==
    IF ~conn THEN Ret("Err", "NotConnected", <<>>, conn, <<>>, 0)
    ELSE IF ~writeOk THEN Ret("Err", "WriteFailed", <<>>, conn, <<>>, 0)
    ELSE Ret("Ok", "none", <<>>, conn, <<CH_PLUS>>, 0)

\* One socket read as the environment answers it.
ReadData(bytes) == [kind |-> "data", bytes |-> bytes]
ReadEof == [kind |-> "eof", bytes |-> <<>>]
ReadErr == [kind |-> "err", bytes |-> <<>>]

\* GdbStream::receive_ack.  reads: what the socket yields, in order; an
\* exhausted list is a socket that has nothing yet (WouldBlock: the loop spins).
receive_ack(conn, reads) ==
    IF ~conn THEN Ret("Err", "NotConnected", <<>>, conn, <<>>, 0)
    ELSE IF reads = <<>> THEN Ret("WouldBlock", "none", <<>>, conn, <<>>, 0)
    ELSE IF Head(reads).kind # "data"
    THEN Ret("Err", "ReadFailed", <<>>, conn, <<>>, 1)
    ELSE IF Head(reads).bytes[1] # CH_PLUS
    THEN Ret("Err", "BadAck", <<Head(reads).bytes[1]>>, conn, <<>>, 1)
    ELSE Ret("Ok", "none", <<>>, conn, <<>>, 1)

\* packet_with_checksum as it would be with format!("${packet}#{checksum:x}")
packet_with_checksum_unpadded(packet) ==
    <<CH_DOLLAR>> \o packet \o <<CH_HASH>> \o fmt_x(wrapping_sum(packet))

\* the frame send_packet writes: format!("${packet}#{checksum:02x}")
packet_with_checksum(packet) ==
    <<CH_DOLLAR>> \o packet \o <<CH_HASH>> \o fmt_02x(wrapping_sum(packet))

\* GdbStream::send_packet
send_packet(conn, packet, writeOk) ==
    IF ~conn THEN Ret("Err", "NotConnected", <<>>, conn, <<>>, 0)
    ELSE IF ~writeOk THEN Ret("Err", "WriteFailed", <<>>, conn, <<>>, 0)
    ELSE Ret("Ok", "none", <<>>, conn, packet_with_checksum(packet), 0)

\* self.disconnect()?; bail!(err): the handle is dropped either way, and a
\* failing shutdown is the error returned
disconnect_bail(err, val, shutOk, nread) ==
    IF shutOk
    THEN [Ret("Err", err, val, FALSE, <<>>, nread) EXCEPT !.violation = err]
    ELSE [Ret("Err", "ShutdownFailed", <<>>, FALSE, <<>>, nread)
             EXCEPT !.violation = err]

\* verify_checksum as it would be if a mismatch only returned the error
verify_checksum_keeps_socket(vec, shutOk, nread) ==
    LET len == Len(vec)
        packet == Slice(vec, 2, len - 3)
        actual_checksum ==
            hex_char_to_byte(vec[len - 1]) * 16 + hex_char_to_byte(vec[len])
    IN  IF wrapping_sum(packet) # actual_checksum
        THEN Ret("Err", "ChecksumMismatch", <<>>, TRUE, <<>>, nread)
        ELSE IF ~from_utf8_ok(packet)
        THEN Ret("Err", "Utf8", <<>>, TRUE, <<>>, nread)
        ELSE Ret("Ok", "none", packet, TRUE, <<>>, nread)

\* receive_packet after its read loop: checksum comparison and UTF-8 decoding
verify_checksum(vec, shutOk, nread) ==
    LET len == Len(vec)
        packet == Slice(vec, 2, len - 3)
        expected_checksum == wrapping_sum(packet)
        actual_checksum ==
            hex_char_to_byte(vec[len - 1]) * 16 + hex_char_to_byte(vec[len])
    IN  IF expected_checksum # actual_checksum
        THEN disconnect_bail("ChecksumMismatch", <<>>, shutOk, nread)
        ELSE IF ~from_utf8_ok(packet)
        THEN Ret("Err", "Utf8", <<>>, TRUE, <<>>, nread)
        ELSE Ret("Ok", "none", packet, TRUE, <<>>, nread)

\* no_start_marker as it would be if the error were returned with the socket
\* still held
no_start_marker_keeps_socket(vec, shutOk, nread) ==
    Ret("Err", "NoStartMarker", vec, TRUE, <<>>, nread)

\* receive_packet when vec[0] != b'$': self.disconnect()?; bail!(..)
no_start_marker(vec, shutOk, nread) ==
    disconnect_bail("NoStartMarker", vec, shutOk, nread)

\* receive_packet's read loop: vec is what has been accumulated so far
RECURSIVE read_loop(_, _, _, _)
read_loop(vec, reads, shutOk, nread) ==
    IF reads = <<>> THEN Ret("WouldBlock", "none", <<>>, TRUE, <<>>, nread)
    ELSE IF Head(reads).kind = "err"
    THEN Ret("Err", "ReadFailed", <<>>, TRUE, <<>>, nread + 1)
    ELSE IF Head(reads).kind = "eof"
    THEN Ret("Err", "ConnectionClosed", <<>>, TRUE, <<>>, nread + 1)
    ELSE
        LET bytes_read == Len(Head(reads).bytes)
            v == vec \o Head(reads).bytes
            len == Len(v)
        IN  IF v[1] # CH_DOLLAR
            THEN no_start_marker(v, shutOk, nread + 1)
            ELSE IF len < 3
            THEN Ret("Panic", "IndexOutOfBounds", <<>>, TRUE, <<>>, nread + 1)
            ELSE IF /\ v[len - 2] = CH_HASH
                    /\ is_ascii_hexdigit(v[len - 1])
                    /\ is_ascii_hexdigit(v[len])
            THEN verify_checksum(v, shutOk, nread + 1)
            ELSE IF bytes_read = BUF_LEN
            THEN read_loop(v, Tail(reads), shutOk, nread + 1)
            ELSE disconnect_bail("NoChecksum", v, shutOk, nread + 1)

\* GdbStream::receive_packet
receive_packet(conn, reads, shutOk) ==
    IF ~conn THEN Ret("Err", "NotConnected", <<>>, conn, <<>>, 0)
    ELSE read_loop(<<>>, reads, shutOk, 0)

\* connect as it would be if it took any answer to its '+' for a handshake
connect_unchecked_ack(conn, tcpOk, writeOk, reads) ==
    IF ~tcpOk THEN Ret("Err", "ConnectFailed", <<>>, conn, <<>>, 0)
    ELSE
        LET s == send_ack(TRUE, writeOk)
            r == receive_ack(TRUE, reads)
        IN  IF s.status # "Ok" THEN s
            ELSE Ret("Ok", "none", <<>>, TRUE, s.tx, r.nread)

\* GdbStream::connect.  tcpOk: TcpStream::connect and set_nodelay succeeded.
\* The old handle, if any, is replaced only once the new socket is open.
connect(conn, tcpOk, writeOk, reads) ==
    IF ~tcpOk THEN Ret("Err", "ConnectFailed", <<>>, conn, <<>>, 0)
    ELSE
        LET s == send_ack(TRUE, writeOk)
            r == receive_ack(TRUE, reads)
        IN  IF s.status # "Ok" THEN s
            ELSE Ret(r.status, r.err, r.val, TRUE, s.tx, r.nread)

(***************************************************************************)
(* State.                                                                  *)
(***************************************************************************)
VARIABLES
    connected,     \* GdbStream.stream is Some
    packet_size,   \* the negotiated maximum packet size, or None
    owed,          \* what the peer still owes for the last command packet
                   \* written to this connection: its "ack", its "reply"
    unacked,       \* a reply packet was read and no '+' written since
    forced,        \* the framing violation on which receive_packet dropped
                   \* the socket, "no" once a socket is open again
    trace,         \* the transport calls made, each with its outcome: those
                   \* of the current operation (client model), the last one
                   \* (transport model)
    op,            \* client model: the operation in progress and its locals
    pc,            \* client model: the transport call the operation makes next
    result,        \* client model: what the last operation returned
    script,        \* transport model: the reads the peer has queued
    peer_closed,   \* a read of this socket returned zero bytes: the peer closed
    wpc,           \* worker model: where the update thread is
    running,       \* worker model: Client.running
    chan,          \* worker model: commands sent on tx and not yet received
    cpc,           \* worker model: where the consumer (the GUI thread) is
    lock,          \* worker model: who holds the mutex of Client.state
    requests,      \* worker model: State.requests, address -> length
    writes,        \* worker model: State.writes
    data_objects,  \* worker model: State.data_objects, address -> bytes
    cur,           \* worker model: the address update's read loop is at
    log,           \* worker model: the steps of the current cycle, in order
    pending0,      \* worker model: State.writes as update found it
    halt_ok,       \* worker model: the cycle's stop_execution returned Ok
    fetched,       \* worker model: addresses some read_slice of update
                   \* returned Ok for
    cancelled,     \* worker model: the worker handled a Disconnect command
    handshake,     \* worker model: what DzvApp::connect's connect sent and
                   \* read, or None
    resumes,       \* worker model: who called continue_execution since the
                   \* connect, up to the first stop_execution
    asked,         \* request model: the addresses State::request was called
                   \* for since the last update returned
    cache0,        \* worker model: data_objects as the update of this cycle
                   \* found it
    ctl,           \* worker model: the execution-control command whose
                   \* packet went out last and whether every socket call
                   \* since the connect succeeded; None where not followed
    tick_start,    \* tick model: next_time as it was before the loop
    next_time,     \* tick model: the accumulator of the update loop
    clock,         \* tick model: the monotonic clock, in nanoseconds
    time,          \* tick model: what Instant::now() returned in the cycle
    ticks,         \* tick model: the cycles made
    tpc            \* tick model: where the loop is

\* the pacing of the update loop
tickvars == <<tick_start, next_time, clock, time, ticks, tpc>>

\* the state of the GUI's Client and of the State it shares with its worker
appcore == <<wpc, running, chan, cpc, lock, requests, writes, data_objects, cur,
             log, pending0, halt_ok, fetched, cancelled, handshake, resumes,
             asked, cache0, tickvars>>

appvars == <<appcore, ctl>>

vars == <<connected, packet_size, owed, unacked, forced, trace, op, pc, result,
          script, peer_closed, appvars>>

\* What the environment decides about one transport call.
Env(tcpOk, writeOk, shutOk, reads) ==
    [tcpOk |-> tcpOk, writeOk |-> writeOk, shutOk |-> shutOk, reads |-> reads]

\* What a send_packet call carries: the command, its address and byte count.
Arg(cmd, address, length) == [cmd |-> cmd, address |-> address, length |-> length]
NoArg == Arg("-", 0, 0)

\* One entry of the trace: the call, the state it was made in, what the
\* environment did, what came back.
Event(call, arg, env, r) ==
    [call |-> call, arg |-> arg, env |-> env, before |-> connected,
     owed |-> owed, unacked |-> unacked, forced |-> forced,
     status |-> r.status, err |-> r.err, val |-> r.val, conn |-> r.conn,
     tx |-> r.tx, nread |-> r.nread, violation |-> r.violation]

\* the record of an operation in progress: its arguments and its locals
Op(name, address, length, data, max) ==
    [name |-> name, address0 |-> address, length |-> length, data |-> data,
     max_read_length |-> max, address |-> address, done |-> 0,
     buf |-> [i \in 1..length |-> 0], response |-> <<>>]
NoOp == Op("none", 0, 0, <<>>, 0)

\* what an operation returned, with the arguments it was called with and the
\* caller's buffer as the operation left it
Result(o, status, err, val) ==
    [name |-> o.name, address |-> o.address0, length |-> o.length,
     max_read_length |-> o.max_read_length,
     status |-> status, err |-> err, val |-> val, buf |-> o.buf]
NoResult == Result(NoOp, "none", "none", <<>>)

\* a panic unwinds the calling thread: nothing is called after it
Panicked ==
    \/ pc = "panicked"
    \/ \E i \in 1..Len(trace) : trace[i].status = "Panic"

(***************************************************************************)
(* The two directions of the lock-step exchange, as the calls move them.   *)
(***************************************************************************)
\* after call `call` returned r: what the peer owes
owed_after(call, arg, r) ==
    IF ~r.conn THEN {}
    ELSE IF call = "connect" THEN (IF r.err = "ConnectFailed" THEN owed ELSE {})
    ELSE IF call = "send_packet" /\ r.status = "Ok"
    THEN (IF arg.cmd = "c" THEN {"ack"} ELSE {"ack", "reply"})
    ELSE IF call = "receive_ack" /\ r.status = "Ok" THEN owed \ {"ack"}
    ELSE IF call = "receive_packet" /\ (r.status = "Ok" \/ r.err = "Utf8")
    THEN owed \ {"reply"}
    ELSE owed

\* after call `call` returned r: whether a reply read is still unacknowledged
unacked_after(call, r) ==
    IF ~r.conn THEN FALSE
    ELSE IF call = "connect" THEN (IF r.err = "ConnectFailed" THEN unacked ELSE FALSE)
    ELSE IF call = "receive_packet" /\ (r.status = "Ok" \/ r.err = "Utf8") THEN TRUE
    ELSE IF call = "send_ack" /\ r.status = "Ok" THEN FALSE
    ELSE unacked

\* after call `call` returned r: whether a framing violation holds the stream down
forced_after(call, r) ==
    IF r.conn THEN "no"
    ELSE IF r.violation # "none" THEN r.violation
    ELSE forced

\* after call `call` returned r: whether the peer has closed the socket the
\* stream holds.  A read that returns zero bytes says so, and so does every
\* read after it; connect opens a new socket.
closed_after(call, env, r) ==
    IF ~r.conn THEN FALSE
    ELSE IF call = "connect" THEN (IF r.err = "ConnectFailed" THEN peer_closed
                                   ELSE r.err = "ReadFailed")
    ELSE peer_closed \/ (r.nread >= 1 /\ env.reads[r.nread].kind = "eof")

(***************************************************************************)
(* The addresses the callers use.                                          *)
(***************************************************************************)
ADDR_A == 41815956   \* 0x027e0f94
ADDR_B == 41815960   \* 0x027e0f98
Addrs == {ADDR_A, ADDR_B}

(***************************************************************************)
(* What the peer may send.                                                 *)
(***************************************************************************)
CH_MINUS == 45       \* '-', the protocol's negative acknowledgment
CH_ZERO == 48        \* '0'
CH_LOWER_F == 102    \* 'f'
CH_G == 103          \* 'g', the first letter that is not a hex digit
BYTE_FF == 255       \* a byte that is not valid UTF-8

AckReads == {<<ReadData(<<CH_PLUS>>)>>, <<ReadData(<<CH_MINUS>>)>>, <<ReadEof>>}

\* what read_exact yields to receive_ack now: nothing but the end of the
\* stream once the peer closed
AckReadsNow == IF peer_closed THEN {<<ReadEof>>} ELSE AckReads

Alphabet == {CH_HASH, CH_ZERO, BYTE_FF}

SeqsUpTo(S, n) == UNION {[1..k -> S] : k \in 0..n}

Payloads == SeqsUpTo(Alphabet, MaxPayload)

\* a payload so long that its frame does not fit one read buffer
LongPayload == [i \in 1..(BUF_LEN - 3) |-> CH_ZERO]

\* v with the byte at position i replaced by b
Replace(v, i, b) == [v EXCEPT ![i] = b]

\* the frames the peer may send for payload p: the correct one, the same with
\* one checksum digit changed, the same with the start marker overwritten
CorruptDigits == {CH_ZERO, CH_LOWER_F, CH_G}
Frames(p) ==
    LET f == packet_with_checksum(p)
        n == Len(f)
    IN  {f}
        \cup {Replace(f, n - 1, d) : d \in CorruptDigits}
        \cup {Replace(f, n, d) : d \in CorruptDigits}
        \cup {Replace(f, 1, CH_PLUS)}

\* every way to hand frame f to the reader in one or two non-empty reads of
\* at most BUF_LEN bytes each
Splits(f) ==
    LET n == Len(f)
    IN  (IF n <= BUF_LEN THEN {<<ReadData(f)>>} ELSE {})
        \cup {<<ReadData(Slice(f, 1, k)), ReadData(Slice(f, k + 1, n))>> :
                k \in {j \in 1..(n - 1) : j <= BUF_LEN /\ n - j <= BUF_LEN}}

Scripts ==
    UNION {Splits(f) : f \in UNION {Frames(p) : p \in Payloads}}
    \cup Splits(packet_with_checksum(LongPayload))
    \cup {<<ReadEof>>, <<ReadErr>>, <<>>}

\* the outcomes the environment can choose between: a call on a stream that
\* holds no socket reaches none
Outcomes == IF connected THEN BOOLEAN ELSE {TRUE}

\* a peer that completes the handshake, one that answers with a negative
\* acknowledgment, one that cannot be written to, one that cannot be reached
HealthyPeer == Env(TRUE, TRUE, TRUE, <<ReadData(<<CH_PLUS>>)>>)
ConnectEnvs ==
    {HealthyPeer,
     Env(TRUE, TRUE, TRUE, <<ReadData(<<CH_MINUS>>)>>),
     Env(TRUE, TRUE, TRUE, <<ReadErr>>),
     Env(TRUE, FALSE, TRUE, <<>>),
     Env(FALSE, TRUE, TRUE, <<>>)}

\* State::get_data and the state of a State that holds nothing
NoRequests == [a \in Addrs |-> None]
NoData == [a \in Addrs |-> None]

\* no update loop is paced
NoTick ==
    /\ tick_start = 0
    /\ next_time = 0
    /\ clock = 0
    /\ time = 0
    /\ ticks = 0
    /\ tpc = "none"

\* the client and the transport on their own: no GUI Client is built on them
NoApp ==
    /\ wpc = "none"
    /\ running = FALSE
    /\ chan = 0
    /\ cpc = "none"
    /\ lock = "free"
    /\ requests = NoRequests
    /\ writes = <<>>
    /\ data_objects = NoData
    /\ cur = 0
    /\ log = <<>>
    /\ pending0 = <<>>
    /\ halt_ok = FALSE
    /\ fetched = {}
    /\ cancelled = FALSE
    /\ handshake = None
    /\ resumes = <<>>
    /\ asked = {}
    /\ cache0 = NoData
    /\ ctl = None
    /\ NoTick

(***************************************************************************)
(* The transport model: calls on one GdbStream, in any order.              *)
(***************************************************************************)
StreamInit ==
    /\ peer_closed = FALSE
    /\ NoApp
    /\ connected = FALSE
    /\ packet_size = None
    /\ owed = {}
    /\ unacked = FALSE
    /\ forced = "no"
    /\ script \in Scripts
    /\ trace = <<>>
    /\ op = NoOp
    /\ pc = "idle"
    /\ result = NoResult

StreamCall(call, arg, env, r) ==
    /\ ~Panicked
    /\ r.status # "WouldBlock"
    /\ trace' = <<Event(call, arg, env, r)>>
    /\ connected' = r.conn
    /\ forced' = forced_after(call, r)
    /\ UNCHANGED <<packet_size, owed, unacked, op, pc, result, peer_closed, appvars>>

StreamConnect ==
    \E env \in ConnectEnvs :
        /\ StreamCall("connect", NoArg, env,
                      connect(connected, env.tcpOk, env.writeOk, env.reads))
        /\ UNCHANGED script

StreamDisconnect ==
    \E shutOk \in Outcomes :
        /\ StreamCall("disconnect", NoArg, Env(TRUE, TRUE, shutOk, <<>>),
                      disconnect(connected, shutOk))
        /\ UNCHANGED script

StreamSendAck ==
    \E writeOk \in Outcomes :
        /\ StreamCall("send_ack", NoArg, Env(TRUE, writeOk, TRUE, <<>>),
                      send_ack(connected, writeOk))
        /\ UNCHANGED script

StreamReceiveAck ==
    \E reads \in (IF connected THEN AckReads ELSE {<<>>}) :
        /\ StreamCall("receive_ack", NoArg, Env(TRUE, TRUE, TRUE, reads),
                      receive_ack(connected, reads))
        /\ UNCHANGED script

StreamSendPacket ==
    \E writeOk \in Outcomes :
        /\ StreamCall("send_packet", Arg("s", 0, 0), Env(TRUE, writeOk, TRUE, <<>>),
                      send_packet(connected, <<CH_LOWER_S>>, writeOk))
        /\ UNCHANGED script

\* receive_packet reads what the peer has queued; what it read is gone
StreamReceivePacket ==
    \E shutOk \in Outcomes :
        LET r == receive_packet(connected, script, shutOk)
        IN  /\ StreamCall("receive_packet", NoArg,
                          Env(TRUE, TRUE, shutOk, script), r)
            /\ script' = SubSeq(script, r.nread + 1, Len(script))

StreamNext ==
    \/ StreamConnect
    \/ StreamDisconnect
    \/ StreamSendAck
    \/ StreamReceiveAck
    \/ StreamSendPacket
    \/ StreamReceivePacket

SpecStream == StreamInit /\ [][StreamNext]_vars

(***************************************************************************)
(* The protocol client: GdbClient's operations, one transport call a step. *)
(***************************************************************************)
USIZE_MAX == 2147483647  \* usize::MAX, as far as the model checker's integers reach:
                         \* every length of the model lies far below it

\* GdbStream::packet_size
stream_packet_size == packet_size

\* hex_encode as it would be with format!("{:x}", byte)
RECURSIVE hex_encode_unpadded(_)
hex_encode_unpadded(data) ==
    IF data = <<>> THEN <<>>
    ELSE fmt_x(Head(data)) \o hex_encode_unpadded(Tail(data))

\* GdbClient::hex_encode
RECURSIVE hex_encode(_)
hex_encode(data) ==
    IF data = <<>> THEN <<>> ELSE fmt_02x(Head(data)) \o hex_encode(Tail(data))

\* hex_decode as it would be if it only refused a string that is too short
hex_decode_takes_longer(data, n) ==
    IF Len(data) < n * 2
    THEN [ok |-> FALSE, bytes |-> <<>>]
    ELSE [ok |-> TRUE,
          bytes |-> [i \in 1..n |-> hex_char_to_byte(data[2 * i - 1]) * 16
                                    + hex_char_to_byte(data[2 * i])]]

\* GdbClient::hex_decode, into a buffer of n bytes
hex_decode(data, n) ==
    IF Len(data) # n * 2
    THEN [ok |-> FALSE, bytes |-> <<>>]
    ELSE [ok |-> TRUE,
          bytes |-> [i \in 1..n |-> hex_char_to_byte(data[2 * i - 1]) * 16
                                    + hex_char_to_byte(data[2 * i])]]

\* GdbClient::hex_decode_string
hex_decode_string(data) ==
    IF Len(data) % 2 # 0
    THEN [ok |-> FALSE, bytes |-> <<>>]
    ELSE LET d == hex_decode(data, Len(data) \div 2)
         IN  [ok |-> from_utf8_ok(d.bytes), bytes |-> d.bytes]

\* handle_error as it would be if no reply were taken for an error
handle_error_never(response) == FALSE

\* GdbClient::handle_error: TRUE when the response is an error reply
handle_error(response) == response # <<>> /\ response[1] = CH_E

\* read_slice's bound on one exchange.  wraps: the build does not check
\* arithmetic overflow, so that a size below 4 wraps around instead of
\* panicking.
max_read_length(size, wraps) ==
    IF size = None THEN (USIZE_MAX - 4) \div 2
    ELSE IF size[1] >= 4 THEN (size[1] - 4) \div 2
    ELSE IF wraps THEN (USIZE_MAX - (3 - size[1])) \div 2
    ELSE -1

\* the command packets
read_packet(address, length) ==
    <<CH_LOWER_M, CH_SPACE>> \o fmt_x(address) \o <<CH_COMMA>> \o fmt_x(length)
write_packet(address, data) ==
    <<CH_UPPER_M, CH_SPACE>> \o fmt_x(address) \o <<CH_COMMA>> \o fmt_x(Len(data))
        \o <<CH_COLON>> \o hex_encode(data)
continue_packet == <<CH_LOWER_C>>
stop_packet == <<CH_LOWER_S>>
gamecode_packet ==
    <<113, 82, 99, 109, 100, CH_COMMA>>
        \o hex_encode(<<103, 97, 109, 101, 99, 111, 100, 101>>)

\* the length of read_slice's current exchange: read_buf.len().min(max_read_length)
chunk_end(o) == Min(o.length - o.done, o.max_read_length)

\* what the operation in progress sends: the packet and the exchange it names
op_arg(o) ==
    IF o.name = "read_slice" THEN Arg("m", o.address, chunk_end(o))
    ELSE IF o.name = "write_slice" THEN Arg("M", o.address, Len(o.data))
    ELSE IF o.name = "continue_execution" THEN Arg("c", 0, 0)
    ELSE IF o.name = "stop_execution" THEN Arg("s", 0, 0)
    ELSE Arg("q", 0, 0)
op_packet(o) ==
    IF o.name = "read_slice" THEN read_packet(o.address, chunk_end(o))
    ELSE IF o.name = "write_slice" THEN write_packet(o.address, o.data)
    ELSE IF o.name = "continue_execution" THEN continue_packet
    ELSE IF o.name = "stop_execution" THEN stop_packet
    ELSE gamecode_packet

(***************************************************************************)
(* Inputs of the client model.  Addresses lie far below 2^32, where        *)
(* `address += end as u32` does not wrap.                                  *)
(***************************************************************************)
BYTE_A5 == 165       \* a byte of target memory
ByteVals == {0, BYTE_A5}
PacketSizes == {None} \cup {Some(n) : n \in 0..MaxPacketSize}

Fill(n, v) == [i \in 1..n |-> v]

OK_REPLY == <<79, 75>>        \* "OK"
ERROR_REPLY == <<CH_E, 48, 49>>   \* "E01"
STOP_REPLY == <<83, 48, 53>>  \* "S05"
GAMECODE_REPLY == <<52, 49>>  \* "41", the hex encoding of "A"

\* the payloads the stub may answer the operation's packet with: the reply the
\* protocol defines, an error reply and, to a read, data of another length
Replies(o) ==
    {ERROR_REPLY} \cup
    (IF o.name = "read_slice"
     THEN {hex_encode(Fill(chunk_end(o), v)) : v \in ByteVals}
          \cup {hex_encode(Fill(chunk_end(o) + 1, 0))}
     ELSE IF o.name = "write_slice" THEN {OK_REPLY}
     ELSE IF o.name = "stop_execution" THEN {STOP_REPLY}
     ELSE {GAMECODE_REPLY})

\* what the socket may yield to the operation's receive_packet: such a reply
\* in one read, the first of them with its checksum or its start marker
\* damaged or cut in two reads, the end of the stream
ReplyScripts(o) ==
    LET f == packet_with_checksum(ERROR_REPLY)
    IN  IF peer_closed THEN {<<ReadEof>>}
        ELSE {<<ReadData(packet_with_checksum(p))>> : p \in Replies(o)}
             \cup {<<ReadData(Replace(f, Len(f), CH_LOWER_F))>>,
                   <<ReadData(Replace(f, 1, CH_PLUS))>>,
                   <<ReadData(Slice(f, 1, 1)), ReadData(Slice(f, 2, Len(f)))>>,
                   <<ReadData(Slice(f, 1, 3)), ReadData(Slice(f, 4, Len(f)))>>,
                   <<ReadEof>>}

\* shutdown can fail only where receive_packet shuts the socket down
RecvEnvs(o) ==
    {Env(TRUE, TRUE, TRUE, s) : s \in ReplyScripts(o)}
    \cup {Env(TRUE, TRUE, FALSE, s) :
            s \in {t \in ReplyScripts(o) : ~receive_packet(TRUE, t, TRUE).conn}}

Init ==
    /\ peer_closed = FALSE
    /\ NoApp
    /\ connected = FALSE
    /\ packet_size \in PacketSizes
    /\ owed = {}
    /\ unacked = FALSE
    /\ forced = "no"
    /\ trace = <<>>
    /\ op = NoOp
    /\ pc = "idle"
    /\ result = NoResult
    /\ script = <<>>

Idle == pc = "idle"

\* an operation returns
Return(o, status, err, val) ==
    /\ result' = Result(o, status, err, val)
    /\ op' = NoOp
    /\ pc' = IF status = "Panic" THEN "panicked" ELSE "idle"

\* an operation begins: its first transport call is send_packet
Begin(o) ==
    /\ Idle
    /\ op' = o
    /\ pc' = "send_packet"
    /\ result' = NoResult
    /\ trace' = <<>>
    /\ UNCHANGED <<connected, packet_size, owed, unacked, forced, script, peer_closed>>

\* what is followed of the exchanges: the execution-control command sent
\* last, and whether no socket call has failed
Followed(last, clean) == [last |-> last, clean |-> clean]

\* the same after one more transport call
Observed(call, arg, r) ==
    IF ctl = None THEN None
    ELSE Some(Followed(IF /\ call = "send_packet"
                          /\ r.status = "Ok"
                          /\ arg.cmd \in {"c", "s"}
                       THEN (IF arg.cmd = "c" THEN CH_LOWER_C ELSE CH_LOWER_S)
                       ELSE ctl[1].last,
                       ctl[1].clean /\ r.status = "Ok"))

\* a transport call of the operation in progress returned r
Called(call, arg, env, r) ==
    /\ trace' = Append(trace, Event(call, arg, env, r))
    /\ connected' = r.conn
    /\ owed' = owed_after(call, arg, r)
    /\ unacked' = unacked_after(call, r)
    /\ forced' = forced_after(call, r)
    /\ peer_closed' = closed_after(call, env, r)
    /\ ctl' = Observed(call, arg, r)
    /\ UNCHANGED <<packet_size, script, appcore>>

\* a call of GdbClient::connect, the peer behaving as env says
ConnectCall(env) ==
    LET r == connect(connected, env.tcpOk, env.writeOk, env.reads)
        o == Op("connect", 0, 0, <<>>, 0)
    IN  /\ trace' = <<Event("connect", NoArg, env, r)>>
        /\ connected' = r.conn
        /\ owed' = owed_after("connect", NoArg, r)
        /\ unacked' = unacked_after("connect", r)
        /\ forced' = forced_after("connect", r)
        /\ peer_closed' = closed_after("connect", env, r)
        /\ Return(o, r.status, r.err, <<>>)
        /\ UNCHANGED <<packet_size, script>>

\* GdbClient::connect
Connect ==
    /\ Idle
    /\ \E env \in ConnectEnvs : ConnectCall(env)
    /\ UNCHANGED appvars

\* a call of GdbClient::disconnect returned r, shutdown(Both) succeeding or not
DisconnectReturned(r, shutOk) ==
    LET o == Op("disconnect", 0, 0, <<>>, 0)
        env == Env(TRUE, TRUE, shutOk, <<>>)
    IN  /\ trace' = <<Event("disconnect", NoArg, env, r)>>
        /\ connected' = r.conn
        /\ owed' = owed_after("disconnect", NoArg, r)
        /\ unacked' = unacked_after("disconnect", r)
        /\ forced' = forced_after("disconnect", r)
        /\ peer_closed' = closed_after("disconnect", env, r)
        /\ Return(o, r.status, r.err, <<>>)
        /\ UNCHANGED <<packet_size, script>>

DisconnectCall(shutOk) == DisconnectReturned(disconnect(connected, shutOk), shutOk)

\* GdbClient::disconnect
Disconnect ==
    /\ Idle
    /\ \E shutOk \in Outcomes : DisconnectCall(shutOk)
    /\ UNCHANGED appvars

\* GdbClient::read_slice is called: the bound is computed, and an empty
\* buffer needs no exchange
ReadSlice ==
    /\ Idle
    /\ UNCHANGED appvars
    /\ \E address \in Addrs, length \in 0..MaxLen, wraps \in BOOLEAN :
        LET max == max_read_length(stream_packet_size, wraps)
            o == Op("read_slice", address, length, <<>>, max)
        IN  /\ wraps \/ max < 0
            /\ IF max < 0
               THEN /\ Return(o, "Panic", "SubtractOverflow", <<>>)
                    /\ trace' = <<>>
                    /\ UNCHANGED <<connected, packet_size, owed, unacked, forced,
                                   script, peer_closed>>
               ELSE IF length = 0
               THEN /\ Return(o, "Ok", "none", <<>>)
                    /\ trace' = <<>>
                    /\ UNCHANGED <<connected, packet_size, owed, unacked, forced,
                                   script, peer_closed>>
               ELSE Begin(o)

\* GdbClient::write_slice is called
WriteSlice ==
    /\ Idle
    /\ UNCHANGED appvars
    /\ \E address \in Addrs, length \in 0..MaxLen, v \in ByteVals :
        Begin(Op("write_slice", address, length, Fill(length, v), 0))

\* GdbClient::continue_execution is called
ContinueExecution ==
    /\ Idle
    /\ UNCHANGED appvars
    /\ Begin(Op("continue_execution", 0, 0, <<>>, 0))

\* GdbClient::stop_execution is called
StopExecution ==
    /\ Idle
    /\ UNCHANGED appvars
    /\ Begin(Op("stop_execution", 0, 0, <<>>, 0))

\* GdbClient::get_gamecode is called
GetGamecode ==
    /\ Idle
    /\ UNCHANGED appvars
    /\ Begin(Op("get_gamecode", 0, 0, <<>>, 0))

\* exchanges the operation in progress has begun
Exchanges(t) == {i \in 1..Len(t) : t[i].call = "send_packet"}

\* self.stream.send_packet(..)?
SendPacket ==
    /\ pc = "send_packet"
    /\ Cardinality(Exchanges(trace)) < MaxExchanges
    /\ \E writeOk \in Outcomes :
        LET r == send_packet(connected, op_packet(op), writeOk)
        IN  /\ Called("send_packet", op_arg(op), Env(TRUE, writeOk, TRUE, <<>>), r)
            /\ IF r.status = "Ok"
               THEN /\ pc' = "receive_ack"
                    /\ UNCHANGED <<op, result>>
               ELSE Return(op, r.status, r.err, <<>>)

\* self.stream.receive_ack()?; continue_execution returns after it
ReceiveAck ==
    /\ pc = "receive_ack"
    /\ \E reads \in AckReadsNow :
        LET r == receive_ack(connected, reads)
        IN  /\ Called("receive_ack", NoArg, Env(TRUE, TRUE, TRUE, reads), r)
            /\ IF r.status # "Ok" THEN Return(op, r.status, r.err, r.val)
               ELSE IF op.name = "continue_execution"
               THEN Return(op, "Ok", "none", <<>>)
               ELSE /\ pc' = "receive_packet"
                    /\ UNCHANGED <<op, result>>

\* let response = self.stream.receive_packet()?; write_slice and
\* stop_execution call handle_error(&response)? before they acknowledge
ReceivePacket ==
    /\ pc = "receive_packet"
    /\ \E env \in RecvEnvs(op) :
        LET r == receive_packet(connected, env.reads, env.shutOk)
        IN  /\ Called("receive_packet", NoArg, env, r)
            /\ IF r.status # "Ok" THEN Return(op, r.status, r.err, r.val)
               ELSE IF /\ op.name \in {"write_slice", "stop_execution"}
                       /\ handle_error(r.val)
               THEN Return(op, "Err", "ServerError", r.val)
               ELSE /\ op' = [op EXCEPT !.response = r.val]
                    /\ pc' = "send_ack"
                    /\ UNCHANGED result

\* read_slice_advance as it would be without `address += end as u32`
read_slice_advance_same_address(o, bytes) ==
    LET end == chunk_end(o)
    IN  [o EXCEPT !.buf = [i \in 1..Len(o.buf) |->
                             IF i > o.done /\ i <= o.done + end
                             THEN bytes[i - o.done] ELSE o.buf[i]],
                  !.done = o.done + end,
                  !.response = <<>>]

\* read_slice_advance as it would be without `read_buf = &mut read_buf[end..]`
read_slice_advance_same_slice(o, bytes) ==
    LET end == chunk_end(o)
    IN  [o EXCEPT !.buf = [i \in 1..Len(o.buf) |->
                             IF i <= end THEN bytes[i] ELSE o.buf[i]],
                  !.address = o.address + end,
                  !.done = o.done + end,
                  !.response = <<>>]

\* read_slice after one read_slice_part returned Ok: the decoded bytes are in
\* the buffer, the address and the rest of the buffer move on
read_slice_advance(o, bytes) ==
    LET end == chunk_end(o)
    IN  [o EXCEPT !.buf = [i \in 1..Len(o.buf) |->
                             IF i > o.done /\ i <= o.done + end
                             THEN bytes[i - o.done] ELSE o.buf[i]],
                  !.address = o.address + end,
                  !.done = o.done + end,
                  !.response = <<>>]

\* self.stream.send_ack()?; read_slice_part and get_gamecode call
\* handle_error(&response)? and decode after they acknowledged
SendAck ==
    /\ pc = "send_ack"
    /\ \E writeOk \in Outcomes :
        LET r == send_ack(connected, writeOk)
            d == hex_decode(op.response, chunk_end(op))
            g == hex_decode_string(op.response)
            o == read_slice_advance(op, d.bytes)
        IN  /\ Called("send_ack", NoArg, Env(TRUE, writeOk, TRUE, <<>>), r)
            /\ IF r.status # "Ok" THEN Return(op, r.status, r.err, <<>>)
               ELSE IF op.name \in {"write_slice", "stop_execution"}
               THEN Return(op, "Ok", "none", <<>>)
               ELSE IF handle_error(op.response)
               THEN Return(op, "Err", "ServerError", op.response)
               ELSE IF op.name = "get_gamecode"
               THEN (IF g.ok THEN Return(op, "Ok", "none", g.bytes)
                     ELSE Return(op, "Err", "Decode", <<>>))
               ELSE IF ~d.ok THEN Return(op, "Err", "LengthMismatch", <<>>)
               ELSE IF o.done = o.length THEN Return(o, "Ok", "none", o.buf)
               ELSE /\ op' = o
                    /\ pc' = "send_packet"
                    /\ UNCHANGED result

Next ==
    \/ Connect
    \/ Disconnect
    \/ ReadSlice
    \/ WriteSlice
    \/ ContinueExecution
    \/ StopExecution
    \/ GetGamecode
    \/ SendPacket
    \/ ReceiveAck
    \/ ReceivePacket
    \/ SendAck

Spec == Init /\ [][Next]_vars

(***************************************************************************)
(* The GUI's Client (gui/src/client.rs): the update thread that runs the   *)
(* cycles, the State it shares with the GUI thread (core/src/state/mod.rs) *)
(* and the GUI thread as the consumer.  The GdbClient handed to            *)
(* Client::new is connected (App::connect), and nothing negotiated a       *)
(* packet size.                                                            *)
(***************************************************************************)
MaxWrites == 2       \* pending writes the consumer lets accumulate
MaxReqLen == 2       \* longest buffer the consumer registers a read for

\* Vec::resize(n, 0): truncated, or extended with zeros
Resize(v, n) == [i \in 1..n |-> IF i <= Len(v) THEN v[i] ELSE 0]

\* State::get_data
get_data(a) == data_objects[a]

\* one step of a cycle, as the log keeps it: what was called, with what, and
\* what it returned once it has
Step(name, address, data) ==
    [step |-> name, address |-> address, data |-> data, status |-> "called"]

\* one element of State.writes
Write(address, data) == [address |-> address, data |-> data]

\* the sizes the GUI's windows ask for: a value of up to MaxReqLen bytes at
\* ADDR_A, a byte at ADDR_B
ReqLens(a) == IF a = ADDR_A THEN 1..MaxReqLen ELSE {1}

\* what the consumer writes to the target
WriteData == {<<BYTE_A5>>}

\* the cycle as it would be if it halted the target again after the update
CycleResume_halts == Op("stop_execution", 0, 0, <<>>, 0)

\* the update thread as it would be if it halted the target before its loop
StartupResume_halts == Op("stop_execution", 0, 0, <<>>, 0)

\* gdb_client.continue_execution() before the loop of the update thread
StartupResume == Op("continue_execution", 0, 0, <<>>, 0)

\* gdb_client.continue_execution()? of DzvApp::connect
ConnectResume == Op("continue_execution", 0, 0, <<>>, 0)

\* who called continue_execution since the connect, closed by the first
\* stop_execution
Noted(rs, o, who) ==
    IF \E i \in 1..Len(rs) : rs[i] = "halt" THEN rs
    ELSE IF o.name = "continue_execution" THEN Append(rs, who)
    ELSE IF o.name = "stop_execution" THEN Append(rs, "halt")
    ELSE rs

\* what connect wrote and read for the handshake
Handshake(env, r) ==
    Some([status |-> r.status, tx |-> r.tx,
          rx |-> IF r.nread >= 1 /\ env.reads[1].kind = "data"
                 THEN env.reads[1].bytes ELSE <<>>])

\* the handshake as GdbStream::connect wants it: a '+' written, a '+' read
Handshook == Some([status |-> "Ok", tx |-> <<CH_PLUS>>, rx |-> <<CH_PLUS>>])

\* the operations that open and close a cycle: gdb_client.stop_execution()
\* and gdb_client.continue_execution()
CycleHalt == Op("stop_execution", 0, 0, <<>>, 0)
CycleResume == Op("continue_execution", 0, 0, <<>>, 0)

\* Client::handle_command as it would be if Disconnect left the socket open
handle_command_keeps_socket(conn, shutOk) == Ret("Ok", "none", <<>>, conn, <<>>, 0)

\* Client::handle_command: Command::Disconnect => gdb.disconnect()
handle_command(conn, shutOk) == disconnect(conn, shutOk)

\* Client::new: the thread is spawned on a connected client
ThreadInit ==
    /\ connected = TRUE
    /\ packet_size = None
    /\ owed = {}
    /\ unacked = FALSE
    /\ forced = "no"
    /\ trace = <<>>
    /\ op = NoOp
    /\ pc = "idle"
    /\ result = NoResult
    /\ script = <<>>
    /\ peer_closed = FALSE
    /\ wpc = "spawn"
    /\ running = FALSE
    /\ chan = 0
    /\ cpc = "active"
    /\ lock = "free"
    /\ data_objects = NoData
    /\ cur = 0
    /\ log = <<>>
    /\ pending0 = <<>>
    /\ halt_ok = FALSE
    /\ fetched = {}
    /\ cancelled = FALSE
    /\ handshake = Handshook
    /\ resumes = <<"connect">>
    /\ asked = {}
    /\ cache0 = NoData

\* DzvApp::connect is called: GdbClient::new()
AppInit ==
    /\ connected = FALSE
    /\ packet_size = None
    /\ owed = {}
    /\ unacked = FALSE
    /\ forced = "no"
    /\ trace = <<>>
    /\ op = NoOp
    /\ pc = "idle"
    /\ result = NoResult
    /\ script = <<>>
    /\ peer_closed = FALSE
    /\ wpc = "none"
    /\ running = FALSE
    /\ chan = 0
    /\ cpc = "connecting"
    /\ lock = "free"
    /\ requests = NoRequests
    /\ writes = <<>>
    /\ data_objects = NoData
    /\ cur = 0
    /\ log = <<>>
    /\ pending0 = <<>>
    /\ halt_ok = FALSE
    /\ fetched = {}
    /\ cancelled = FALSE
    /\ handshake = None
    /\ resumes = <<>>
    /\ asked = {}
    /\ cache0 = NoData
    /\ ctl = None
    /\ NoTick

\* DzvApp::connect: gdb_client.connect(addr)?
AppConnect ==
    /\ cpc = "connecting"
    /\ Idle
    /\ \E env \in ConnectEnvs :
        LET r == connect(connected, env.tcpOk, env.writeOk, env.reads)
        IN  /\ ConnectCall(env)
            /\ handshake' = Handshake(env, r)
            /\ cpc' = IF r.status = "Ok" THEN "resuming" ELSE "failed"
    /\ UNCHANGED <<wpc, running, chan, lock, requests, writes, data_objects,
                   cur, log, pending0, halt_ok, fetched, cancelled, resumes,
                   tickvars, asked, cache0, ctl>>

\* DzvApp::connect: gdb_client.continue_execution()?
AppResume ==
    /\ cpc = "resuming"
    /\ Begin(ConnectResume)
    /\ resumes' = Noted(resumes, ConnectResume, "connect")
    /\ cpc' = "resumed"
    /\ UNCHANGED <<wpc, running, chan, lock, requests, writes, data_objects,
                   cur, log, pending0, halt_ok, fetched, cancelled, handshake,
                   tickvars, asked, cache0, ctl>>

\* DzvApp::connect: continue_execution returned; on Ok View::new builds the
\* Client, which spawns the update thread on an empty State, and on Err the
\* client is dropped
AppSpawn ==
    /\ cpc = "resumed"
    /\ Idle
    /\ IF result.status = "Ok"
       THEN /\ cpc' = "active"
            /\ wpc' = "spawn"
       ELSE /\ cpc' = "failed"
            /\ wpc' = wpc
    /\ trace' = <<>>
    /\ op' = NoOp
    /\ result' = NoResult
    /\ UNCHANGED <<connected, packet_size, owed, unacked, forced, pc, script,
                   peer_closed, running, chan, lock, requests, writes,
                   data_objects, cur, log, pending0, halt_ok, fetched,
                   cancelled, handshake, resumes, tickvars, asked, cache0, ctl>>

\* *running.lock().unwrap() = true
WorkerStart ==
    /\ wpc = "spawn"
    /\ wpc' = "resume0"
    /\ running' = TRUE
    /\ UNCHANGED <<connected, packet_size, owed, unacked, forced, trace, op, pc,
                   result, script, peer_closed, chan, cpc, lock, requests, writes,
                   data_objects, cur, log, pending0, halt_ok, fetched, cancelled>>
    /\ UNCHANGED <<handshake, resumes, tickvars, asked, cache0, ctl>>

\* gdb_client.continue_execution() before the loop
WorkerFirstResume ==
    /\ wpc = "resume0"
    /\ Begin(StartupResume)
    /\ resumes' = Noted(resumes, StartupResume, "thread")
    /\ wpc' = "top"
    /\ UNCHANGED <<running, chan, cpc, lock, requests, writes, data_objects, cur,
                   log, pending0, halt_ok, fetched, cancelled>>
    /\ UNCHANGED <<handshake, tickvars, asked, cache0, ctl>>

\* while gdb_client.is_connected(): the loop is left, the client is
\* disconnected and running is cleared
WorkerExit ==
    /\ wpc = "top"
    /\ Idle
    /\ ~is_connected(connected)
    /\ \E shutOk \in Outcomes : DisconnectCall(shutOk)
    /\ running' = FALSE
    /\ wpc' = "done"
    /\ UNCHANGED <<chan, cpc, lock, requests, writes, data_objects, cur, log,
                   pending0, halt_ok, fetched, cancelled>>
    /\ UNCHANGED <<handshake, resumes, tickvars, asked, cache0, ctl>>

\* if let Ok(cmd) = rx.try_recv(): handle_command, then continue
WorkerCommand ==
    /\ wpc = "top"
    /\ Idle
    /\ is_connected(connected)
    /\ chan > 0
    /\ chan' = chan - 1
    /\ \E shutOk \in Outcomes :
        DisconnectReturned(handle_command(connected, shutOk), shutOk)
    /\ cancelled' = TRUE
    /\ UNCHANGED <<wpc, running, cpc, lock, requests, writes, data_objects, cur,
                   log, pending0, halt_ok, fetched>>
    /\ UNCHANGED <<handshake, resumes, tickvars, asked, cache0, ctl>>

\* gdb_client.stop_execution(): a cycle begins
WorkerHalt ==
    /\ wpc = "top"
    /\ is_connected(connected)
    /\ chan = 0
    /\ Begin(CycleHalt)
    /\ resumes' = Noted(resumes, CycleHalt, "thread")
    /\ wpc' = "lock"
    /\ log' = <<Step("halt", 0, <<>>)>>
    /\ halt_ok' = FALSE
    /\ pending0' = <<>>
    /\ cur' = 0
    /\ UNCHANGED <<running, chan, cpc, lock, requests, writes, data_objects,
                   fetched, cancelled>>
    /\ UNCHANGED <<handshake, tickvars, asked, cache0, ctl>>

\* state.lock().unwrap(): stop_execution returned, and whatever it returned
\* is logged and dropped
TakeLock ==
    /\ wpc = "lock"
    /\ Idle
    /\ lock = "free"
    /\ lock' = "worker"
    /\ halt_ok' = (result.status = "Ok")
    /\ pending0' = writes
    /\ wpc' = "update"
    /\ trace' = <<>>
    /\ op' = NoOp
    /\ result' = NoResult
    /\ UNCHANGED <<connected, packet_size, owed, unacked, forced, pc, script,
                   peer_closed, running, chan, cpc, requests, writes,
                   data_objects, cur, log, fetched, cancelled>>
    /\ UNCHANGED <<handshake, resumes, tickvars, asked, ctl>>

\* the update thread takes the lock of the state
WorkerLock == TakeLock /\ UNCHANGED cache0

\* the same step, remembering the cache as the update finds it
WantLock == TakeLock /\ cache0' = data_objects

\* State::update: the operation update made last returned an error (`?`)
UpdateFailed ==
    /\ log[Len(log)].step \in {"write", "read"}
    /\ result.status # "Ok"

\* State::update: the log, with what the operation made last returned
Marked ==
    IF log[Len(log)].step \in {"write", "read"}
    THEN [log EXCEPT ![Len(log)].status = result.status]
    ELSE log

\* State::update: the read that returned last wrote into its cache slot, and
\* the slot is what the buffer of the read is now
Settled ==
    IF log[Len(log)].step = "read"
    THEN [data_objects EXCEPT ![cur] = Some(result.buf)]
    ELSE data_objects
FetchedNow ==
    IF log[Len(log)].step = "read" /\ result.status = "Ok"
    THEN fetched \cup {cur}
    ELSE fetched

\* State::update as it would be if its reads did not wait for the writes
WritesFlushed_never_waits == TRUE

\* State::update: the loop over self.writes.drain(..) has ended
WritesFlushed == writes = <<>>

\* State::update: the addresses self.requests.iter() has yet to yield
ToRead == {a \in Addrs : requests[a] # None /\ a > cur}
NextRead == CHOOSE a \in ToRead : \A b \in ToRead : a <= b

\* State::update: gdb.write_slice(address, &data)? for the next drained write
WorkerWrite ==
    /\ wpc = "update"
    /\ Idle
    /\ ~UpdateFailed
    /\ writes # <<>>
    /\ Begin(Op("write_slice", Head(writes).address, Len(Head(writes).data),
                Head(writes).data, 0))
    /\ writes' = Tail(writes)
    /\ log' = Append(Marked, Step("write", Head(writes).address, Head(writes).data))
    /\ UNCHANGED <<wpc, running, chan, cpc, lock, requests, data_objects, cur,
                   pending0, halt_ok, fetched, cancelled>>
    /\ UNCHANGED <<handshake, resumes, tickvars, asked, cache0, ctl>>

\* State::update: entry(address).or_default(), resize, gdb.read_slice(..)?
\* for the next registered address
WorkerRead ==
    /\ wpc = "update"
    /\ Idle
    /\ ~UpdateFailed
    /\ WritesFlushed
    /\ ToRead # {}
    /\ LET a == NextRead
           length == requests[a][1]
           old == IF Settled[a] = None THEN <<>> ELSE Settled[a][1]
           buffer == Resize(old, length)
           max == max_read_length(stream_packet_size, TRUE)
       IN  /\ Begin([Op("read_slice", a, length, <<>>, max) EXCEPT !.buf = buffer])
           /\ data_objects' = [Settled EXCEPT ![a] = Some(buffer)]
           /\ cur' = a
           /\ log' = Append(Marked, Step("read", a, <<length>>))
    /\ fetched' = FetchedNow
    /\ UNCHANGED <<wpc, running, chan, cpc, lock, requests, writes, pending0,
                   halt_ok, cancelled>>
    /\ UNCHANGED <<handshake, resumes, tickvars, asked, cache0, ctl>>

\* State::update is about to return, Ok or with the error of the operation
\* that failed
UpdateDone ==
    /\ wpc = "update"
    /\ Idle
    /\ UpdateFailed \/ (writes = <<>> /\ ToRead = {})

\* State::update returns; the drain drops the writes it did not reach, the
\* guard releases the lock, the error is logged and the cycle keeps nothing of
\* the update
WorkerUpdateReturn ==
    /\ UpdateDone
    /\ data_objects' = Settled
    /\ fetched' = FetchedNow
    /\ writes' = <<>>
    /\ lock' = "free"
    /\ wpc' = "resume"
    /\ log' = <<Step("return", 0, IF UpdateFailed THEN <<0>> ELSE <<1>>)>>
    /\ pending0' = <<>>
    /\ halt_ok' = FALSE
    /\ cur' = 0
    /\ trace' = <<>>
    /\ op' = NoOp
    /\ result' = NoResult
    /\ UNCHANGED <<connected, packet_size, owed, unacked, forced, pc, script,
                   peer_closed, running, chan, cpc, requests, cancelled>>
    /\ asked' = {}
    /\ cache0' = NoData
    /\ UNCHANGED <<handshake, resumes, tickvars, ctl>>

\* gdb_client.continue_execution() after the update
WorkerResume ==
    /\ wpc = "resume"
    /\ Begin(CycleResume)
    /\ wpc' = "sleep"
    /\ UNCHANGED <<running, chan, cpc, lock, requests, writes, data_objects, cur,
                   log, pending0, halt_ok, fetched, cancelled>>
    /\ UNCHANGED <<handshake, resumes, tickvars, asked, cache0, ctl>>

\* std::thread::sleep(next_time - time): continue_execution returned,
\* whatever it returned, and the cycle ends; the next one keeps nothing of it
WorkerSleep ==
    /\ wpc = "sleep"
    /\ Idle
    /\ wpc' = "top"
    /\ log' = <<>>
    /\ trace' = <<>>
    /\ op' = NoOp
    /\ result' = NoResult
    /\ UNCHANGED <<connected, packet_size, owed, unacked, forced, pc, script,
                   peer_closed, running, chan, cpc, lock, requests, writes,
                   data_objects, cur, pending0, halt_ok, fetched, cancelled>>
    /\ UNCHANGED <<handshake, resumes, tickvars, asked, cache0, ctl>>

\* the GUI thread, holding the lock of the state: State::request
ConsumerRequest ==
    /\ cpc = "active"
    /\ lock = "free"
    /\ \E a \in Addrs :
        \E n \in ReqLens(a) : requests' = [requests EXCEPT ![a] = Some(n)]
    /\ UNCHANGED <<connected, packet_size, owed, unacked, forced, trace, op, pc,
                   result, script, peer_closed, wpc, running, chan, cpc, lock,
                   writes, data_objects, cur, log, pending0, halt_ok, fetched,
                   cancelled>>
    /\ UNCHANGED <<handshake, resumes, tickvars, asked, cache0, ctl>>

\* the GUI thread, holding the lock of the state: State::request_write
ConsumerRequestWrite ==
    /\ cpc = "active"
    /\ lock = "free"
    /\ Len(writes) < MaxWrites
    /\ \E a \in Addrs, data \in WriteData :
        writes' = Append(writes, Write(a, data))
    /\ UNCHANGED <<connected, packet_size, owed, unacked, forced, trace, op, pc,
                   result, script, peer_closed, wpc, running, chan, cpc, lock,
                   requests, data_objects, cur, log, pending0, halt_ok, fetched,
                   cancelled>>
    /\ UNCHANGED <<handshake, resumes, tickvars, asked, cache0, ctl>>

\* View::render_central_panel: self.client.state.lock() while the update
\* thread holds the lock; the GUI thread waits for it
ConsumerLockWait ==
    /\ cpc = "active"
    /\ lock = "worker"
    /\ cpc' = "waiting"
    /\ UNCHANGED <<connected, packet_size, owed, unacked, forced, trace, op, pc,
                   result, script, peer_closed, wpc, running, chan, lock,
                   requests, writes, data_objects, cur, log, pending0, halt_ok,
                   fetched, cancelled>>
    /\ UNCHANGED <<handshake, resumes, tickvars, asked, cache0, ctl>>

\* the update thread dropped its guard: lock() returns to the GUI thread
ConsumerLockTaken ==
    /\ cpc = "waiting"
    /\ lock = "free"
    /\ cpc' = "active"
    /\ UNCHANGED <<connected, packet_size, owed, unacked, forced, trace, op, pc,
                   result, script, peer_closed, wpc, running, chan, lock,
                   requests, writes, data_objects, cur, log, pending0, halt_ok,
                   fetched, cancelled>>
    /\ UNCHANGED <<handshake, resumes, tickvars, asked, cache0, ctl>>

\* View::exit: send_command(Command::Disconnect)?, which needs is_running(),
\* then join_update_thread()
ConsumerExit ==
    /\ cpc = "active"
    /\ running
    /\ chan' = chan + 1
    /\ cpc' = "joining"
    /\ UNCHANGED <<connected, packet_size, owed, unacked, forced, trace, op, pc,
                   result, script, peer_closed, wpc, running, lock, requests,
                   writes, data_objects, cur, log, pending0, halt_ok, fetched,
                   cancelled>>
    /\ UNCHANGED <<handshake, resumes, tickvars, asked, cache0, ctl>>

\* st::View::exit while running is false: if !self.client.is_running() {
\* return Ok(()) }, no command sent and no thread joined
ConsumerExitEarly ==
    /\ cpc = "active"
    /\ ~running
    /\ cpc' = "exited"
    /\ UNCHANGED <<connected, packet_size, owed, unacked, forced, trace, op, pc,
                   result, script, peer_closed, wpc, running, chan, lock,
                   requests, writes, data_objects, cur, log, pending0, halt_ok,
                   fetched, cancelled>>
    /\ UNCHANGED <<handshake, resumes, tickvars, asked, cache0, ctl>>

\* join_update_thread returns: the update thread has ended
ConsumerJoined ==
    /\ cpc = "joining"
    /\ wpc = "done"
    /\ cpc' = "exited"
    /\ UNCHANGED <<connected, packet_size, owed, unacked, forced, trace, op, pc,
                   result, script, peer_closed, wpc, running, chan, lock,
                   requests, writes, data_objects, cur, log, pending0, halt_ok,
                   fetched, cancelled>>
    /\ UNCHANGED <<handshake, resumes, tickvars, asked, cache0, ctl>>

\* the steps of the update thread
WorkerThread ==
    \/ WorkerStart
    \/ WorkerFirstResume
    \/ WorkerExit
    \/ WorkerCommand
    \/ WorkerHalt
    \/ WorkerLock
    \/ WorkerWrite
    \/ WorkerRead
    \/ WorkerUpdateReturn
    \/ WorkerResume
    \/ WorkerSleep
    \/ SendPacket
    \/ ReceiveAck
    \/ ReceivePacket
    \/ SendAck

WorkerNext ==
    \/ AppConnect
    \/ AppResume
    \/ AppSpawn
    \/ WorkerStart
    \/ WorkerFirstResume
    \/ WorkerExit
    \/ WorkerCommand
    \/ WorkerHalt
    \/ WorkerLock
    \/ WorkerWrite
    \/ WorkerRead
    \/ WorkerUpdateReturn
    \/ WorkerResume
    \/ WorkerSleep
    \/ SendPacket
    \/ ReceiveAck
    \/ ReceivePacket
    \/ SendAck
    \/ ConsumerRequest
    \/ ConsumerRequestWrite
    \/ ConsumerExit
    \/ ConsumerJoined

SpecWorker == AppInit /\ [][WorkerNext]_vars

\* The GUI thread registered a read and a write before the first cycle and
\* from then on does nothing but leave the view.
LiveInit ==
    /\ ThreadInit
    /\ ctl = Some(Followed(CH_LOWER_C, TRUE))
    /\ requests = [NoRequests EXCEPT ![ADDR_A] = Some(1)]
    /\ writes = <<Write(ADDR_A, <<BYTE_A5>>)>>
    /\ NoTick

LiveNext ==
    \/ WorkerStart
    \/ WorkerFirstResume
    \/ WorkerExit
    \/ WorkerCommand
    \/ WorkerHalt
    \/ WorkerLock
    \/ WorkerWrite
    \/ WorkerRead
    \/ WorkerUpdateReturn
    \/ WorkerResume
    \/ WorkerSleep
    \/ SendPacket
    \/ ReceiveAck
    \/ ReceivePacket
    \/ SendAck
    \/ ConsumerExit
    \/ ConsumerJoined

\* the update thread is scheduled and its socket calls return: a step it can
\* take is taken
SpecLive == LiveInit /\ [][LiveNext]_vars /\ WF_vars(WorkerThread)

(***************************************************************************)
(* The GUI thread, frame by frame: the update thread with a GUI thread that *)
(* takes the lock of the state for a frame, waiting for it when the update *)
(* holds it, calls State::request for the values its open windows show,    *)
(* and stops calling it for a window that was closed.                      *)
(***************************************************************************)

\* Client::new: the thread is spawned on an empty State
WantInit ==
    /\ ThreadInit
    /\ ctl = None
    /\ requests = NoRequests
    /\ writes = <<>>
    /\ NoTick

\* the GUI thread, holding the lock of the state: read_object calls
\* State::request for a value a window shows
WantRequest ==
    /\ cpc = "active"
    /\ lock = "free"
    /\ \E a \in Addrs :
        /\ \E n \in ReqLens(a) : requests' = [requests EXCEPT ![a] = Some(n)]
        /\ asked' = asked \cup {a}
    /\ UNCHANGED <<connected, packet_size, owed, unacked, forced, trace, op, pc,
                   result, script, peer_closed, wpc, running, chan, cpc, lock,
                   writes, data_objects, cur, log, pending0, halt_ok, fetched,
                   cancelled, handshake, resumes, tickvars, cache0, ctl>>

WantNext ==
    \/ WorkerStart
    \/ WorkerFirstResume
    \/ WorkerExit
    \/ WorkerCommand
    \/ WorkerHalt
    \/ WantLock
    \/ WorkerRead
    \/ WorkerUpdateReturn
    \/ WorkerResume
    \/ WorkerSleep
    \/ SendPacket
    \/ ReceiveAck
    \/ ReceivePacket
    \/ SendAck
    \/ WantRequest
    \/ ConsumerLockWait
    \/ ConsumerLockTaken
    \/ ConsumerExit
    \/ ConsumerExitEarly
    \/ ConsumerJoined

SpecWant == WantInit /\ [][WantNext]_vars

(***************************************************************************)
(* The framing on its own: a payload is handed to send_packet, and the     *)
(* bytes it wrote are handed to receive_packet.                            *)
(***************************************************************************)

\* a payload whose frame does not fit one read buffer, with a '#' and two
\* hex digits where the first read ends
BoundaryPayload ==
    [i \in 1..(BUF_LEN - 1) |->
        IF i = BUF_LEN - 3 THEN CH_HASH ELSE CH_ZERO]

\* the payloads framed: send_packet takes a &str, which is valid UTF-8
FramePayloads ==
    {p \in Payloads : from_utf8_ok(p)} \cup {LongPayload, BoundaryPayload}

\* frame f as a reader gets it when all of it has arrived before it reads:
\* every read fills the buffer as far as there are bytes
FullReads(f) ==
    IF Len(f) <= BUF_LEN THEN <<ReadData(f)>>
    ELSE <<ReadData(Slice(f, 1, BUF_LEN)),
           ReadData(Slice(f, BUF_LEN + 1, Len(f)))>>

\* a connected stream and a payload to send
FrameInit ==
    /\ peer_closed = FALSE
    /\ NoApp
    /\ connected = TRUE
    /\ packet_size = None
    /\ owed = {}
    /\ unacked = FALSE
    /\ forced = "no"
    /\ script = <<>>
    /\ trace = <<>>
    /\ \E p \in FramePayloads : op = Op("send_packet", 0, 0, p, 0)
    /\ pc = "send_packet"
    /\ result = NoResult

\* send_packet(P); what it wrote reaches the reader in one or two reads
FrameSend ==
    /\ pc = "send_packet"
    /\ \E writeOk \in BOOLEAN :
        LET r == send_packet(connected, op.data, writeOk)
        IN  /\ trace' = <<Event("send_packet", Arg("frame", 0, Len(op.data)),
                                Env(TRUE, writeOk, TRUE, <<>>), r)>>
            /\ IF r.status = "Ok"
               THEN /\ script' \in Splits(r.tx)
                    /\ pc' = "receive_packet"
               ELSE /\ script' = script
                    /\ pc' = "idle"
    /\ UNCHANGED <<connected, packet_size, owed, unacked, forced, op, result,
                   peer_closed, appvars>>

\* receive_packet on the bytes that arrived
FrameReceive ==
    /\ pc = "receive_packet"
    /\ \E shutOk \in BOOLEAN :
        LET r == receive_packet(connected, script, shutOk)
        IN  /\ trace' = Append(trace, Event("receive_packet", NoArg,
                                            Env(TRUE, TRUE, shutOk, script), r))
            /\ connected' = r.conn
            /\ forced' = forced_after("receive_packet", r)
            /\ script' = SubSeq(script, r.nread + 1, Len(script))
            /\ pc' = IF r.status = "Panic" THEN "panicked" ELSE "idle"
    /\ UNCHANGED <<packet_size, owed, unacked, op, result, peer_closed, appvars>>

FrameNext ==
    \/ FrameSend
    \/ FrameReceive

SpecFrame == FrameInit /\ [][FrameNext]_vars

(***************************************************************************)
(* The hex codec on its own: bytes are encoded, and a string is decoded    *)
(* into a buffer.                                                          *)
(***************************************************************************)

\* the byte strings encoded: bytes below 16, above, and the largest
HexInputs == SeqsUpTo({0, 10, BYTE_A5, BYTE_FF}, MaxLen)

\* the strings handed to hex_decode: an encoding, the same without its last
\* character, the same with one or two characters more
HexStrings(e) ==
    {e, e \o <<CH_ZERO>>, e \o <<CH_ZERO, CH_ZERO>>}
    \cup (IF e = <<>> THEN {} ELSE {SubSeq(e, 1, Len(e) - 1)})

\* the buffer handed to hex_decode, as the caller filled it
HexBuffer(n) == Fill(n, BYTE_FF)

\* the bytes to encode
HexInit ==
    /\ peer_closed = FALSE
    /\ NoApp
    /\ connected = FALSE
    /\ packet_size = None
    /\ owed = {}
    /\ unacked = FALSE
    /\ forced = "no"
    /\ script = <<>>
    /\ trace = <<>>
    /\ \E b \in HexInputs : op = Op("hex_encode", 0, 0, b, 0)
    /\ pc = "hex_encode"
    /\ result = NoResult

\* Self::hex_encode(data)
HexEncode ==
    /\ pc = "hex_encode"
    /\ op' = [op EXCEPT !.response = hex_encode(op.data)]
    /\ pc' = "hex_decode"
    /\ UNCHANGED <<connected, packet_size, owed, unacked, forced, trace, result,
                   script, peer_closed, appvars>>

\* Self::hex_decode(data, buf): buf is written only once the length was
\* accepted
HexDecode ==
    /\ pc = "hex_decode"
    /\ \E data \in HexStrings(op.response), n \in 0..(MaxLen + 1) :
        LET d == hex_decode(data, n)
            o == [op EXCEPT !.name = "hex_decode", !.length = n,
                            !.buf = IF d.ok THEN d.bytes ELSE HexBuffer(n)]
        IN  result' = IF d.ok THEN Result(o, "Ok", "none", data)
                      ELSE Result(o, "Err", "Length", data)
    /\ pc' = "hex_decoded"
    /\ UNCHANGED <<connected, packet_size, owed, unacked, forced, trace, op,
                   script, peer_closed, appvars>>

HexNext ==
    \/ HexEncode
    \/ HexDecode

SpecHex == HexInit /\ [][HexNext]_vars

(***************************************************************************)
(* The pacing of the update loop: the clock, next_time and the sleep at    *)
(* the end of a cycle.  Times are in nanoseconds.                          *)
(***************************************************************************)

\* the cycles followed
MaxCycles == 3

\* Client::FRAME_TIME, Duration::from_nanos(16_666_667)
FRAME_TIME == 16666667

\* Instant - Instant: the time elapsed from b to a, zero when b is later
instant_sub(a, b) == IF a >= b THEN a - b ELSE 0

\* the loop as it would be if it moved next_time by one frame in every cycle
next_multiple_of_one_frame(n, m) == m

\* u128::next_multiple_of
next_multiple_of(n, m) == IF n % m = 0 THEN n ELSE n + (m - (n % m))

\* what Instant::now() returns when the thread starts
StartTimes == {0, 7}

\* how long the body of a cycle takes
CycleTimes == {0, 1, FRAME_TIME - 1, FRAME_TIME, FRAME_TIME + 1,
               2 * FRAME_TIME + 1}

\* how much longer than asked thread::sleep sleeps
Oversleeps == {0, 1}

\* what the pacing of the loop leaves alone
paced == <<connected, packet_size, owed, unacked, forced, trace, op, pc,
           result, script, peer_closed, wpc, running, chan, cpc, lock,
           requests, writes, data_objects, cur, log, pending0, halt_ok,
           fetched, cancelled, handshake, resumes, asked, cache0,
           ctl>>

\* let mut next_time = Instant::now()
TickInit ==
    /\ ThreadInit
    /\ ctl = None
    /\ requests = NoRequests
    /\ writes = <<>>
    /\ clock \in StartTimes
    /\ tick_start = clock
    /\ next_time = clock
    /\ time = clock
    /\ ticks = 0
    /\ tpc = "work"

\* the body of a cycle runs
TickWork ==
    /\ tpc = "work"
    /\ ticks < MaxCycles
    /\ \E d \in CycleTimes : clock' = clock + d
    /\ tpc' = "now"
    /\ UNCHANGED <<tick_start, next_time, time, ticks, paced>>

\* let time = Instant::now(); next_time += ...
TickAdvance ==
    /\ tpc = "now"
    /\ time' = clock
    /\ next_time' = next_time
            + next_multiple_of(instant_sub(clock, next_time), FRAME_TIME)
    /\ tpc' = "sleep"
    /\ UNCHANGED <<tick_start, clock, ticks, paced>>

\* the duration handed to thread::sleep
SleepTime == instant_sub(next_time, time)

\* std::thread::sleep(next_time - time)
TickSleep ==
    /\ tpc = "sleep"
    /\ \E over \in Oversleeps : clock' = clock + SleepTime + over
    /\ ticks' = ticks + 1
    /\ tpc' = "work"
    /\ UNCHANGED <<tick_start, next_time, time, paced>>

TickNext ==
    \/ TickWork
    \/ TickAdvance
    \/ TickSleep

SpecTick == TickInit /\ [][TickNext]_vars

(***************************************************************************)
(* Properties.                                                             *)
(***************************************************************************)
Events == {trace[i] : i \in 1..Len(trace)}

\* the command packets that went out on the connection
Sent == {e \in Events : e.call = "send_packet" /\ e.status = "Ok"}

\* C1: strict alternation.  On a connection that is still Connected the
\* client writes a command packet only when the peer owes nothing for the
\* previous one: its '+' has been received and, unless it was the continue
\* command, so has its reply packet.
C1_StrictAlternation == \A e \in Sent : e.owed = {}

\* C2: every reply packet the client received, error replies included, has
\* been acknowledged with a '+' by the time the client writes its next
\* command packet.
C2_RepliesAcknowledged == \A e \in Sent : ~e.unacked

\* C5: a byte other than '+' read by receive_ack is a protocol violation: the
\* call returns an error and the transport is left Disconnected.
C5_BadAckDisconnects ==
    \A e \in Events :
        (/\ e.call = "receive_ack"
         /\ e.before
         /\ e.env.reads # <<>>
         /\ Head(e.env.reads).kind = "data"
         /\ Head(e.env.reads).bytes[1] # CH_PLUS)
        => (e.status = "Err" /\ ~e.conn)

(***************************************************************************)
(* read_slice and write_slice: the exchanges of one operation.             *)
(***************************************************************************)
\* the operation the trace belongs to: the one in progress, else the one
\* that returned last
Current == IF op.name # "none" THEN op.name ELSE result.name
Returned == op.name = "none" /\ result.name # "none"
CurLength == IF op.name # "none" THEN op.length ELSE result.length
CurAddress == IF op.name # "none" THEN op.address0 ELSE result.address
CurBound == IF op.name # "none" THEN op.max_read_length ELSE result.max_read_length

\* the exchanges the operation issued, in order: the command packets written
IsSend(e) == e.call = "send_packet"
IsSent(e) == IsSend(e) /\ e.status = "Ok"
Issued == SelectSeq(trace, IsSent)

RECURSIVE SumLengths(_)
SumLengths(es) ==
    IF es = <<>> THEN 0 ELSE Head(es).arg.length + SumLengths(Tail(es))

CeilDiv(a, b) == (a + b - 1) \div b

\* C7: chunking of read_slice.  For a buffer of length L at address A and a
\* positive bound C: the first exchange is at A, each later one at the
\* previous address plus the previous length, every exchange asks for at
\* least 1 and at most C bytes, and a read_slice that returned Ok issued
\* exactly ceil(L/C) exchanges whose lengths sum to L (none when L = 0).
C7_ReadChunking ==
    (Current = "read_slice" /\ CurBound > 0) =>
        /\ \A i \in 1..Len(Issued) :
            /\ Issued[i].arg.cmd = "m"
            /\ Issued[i].arg.length >= 1
            /\ Issued[i].arg.length <= CurBound
            /\ Issued[i].arg.address =
                 (IF i = 1 THEN CurAddress
                  ELSE Issued[i - 1].arg.address + Issued[i - 1].arg.length)
        /\ SumLengths(Issued) <= CurLength
        /\ Len(Issued) <= CeilDiv(CurLength, CurBound)
        /\ (Returned /\ result.status = "Ok") =>
            /\ Len(Issued) = CeilDiv(CurLength, CurBound)
            /\ SumLengths(Issued) = CurLength
        /\ (CurLength = 0) => Issued = <<>>

\* a read of 3 bytes under a bound of 2 returned Ok: two exchanges, the last
\* one shorter
C7_Witness ==
    /\ Returned
    /\ result.name = "read_slice"
    /\ result.status = "Ok"
    /\ Len(Issued) >= 2
    /\ Issued[Len(Issued)].arg.length < CurBound
    /\ Issued[2].arg.address = CurAddress + CurBound

\* the length of the reply frame to a read of n bytes:
\* '$', 2n hex characters, '#', two checksum digits
ReplyFrameLen(n) == 2 * n + 4

\* C8: with a negotiated maximum packet size S every read exchange asks for at
\* most (S - 4) / 2 bytes, so that its reply frame is at most S bytes long;
\* when nothing was negotiated a non-empty buffer is read in one exchange.
C8_ReadBound ==
    (Current = "read_slice") =>
        IF packet_size = None
        THEN Len(Issued) <= 1
        ELSE \A i \in 1..Len(Issued) :
                /\ 2 * Issued[i].arg.length <= packet_size[1] - 4
                /\ ReplyFrameLen(Issued[i].arg.length) <= packet_size[1]

\* C9: write_slice keeps to the same bound: with a negotiated maximum packet
\* size S no write exchange carries more than (S - 4) / 2 data bytes.
C9_WriteBound ==
    (Current = "write_slice" /\ packet_size # None) =>
        \A i \in 1..Len(Issued) :
            (packet_size[1] >= 4) =>
                Issued[i].arg.length <= (packet_size[1] - 4) \div 2

\* the replies read_slice received that begin with the error marker
ErrorReplies ==
    {i \in 1..Len(trace) :
        /\ trace[i].call = "receive_packet"
        /\ trace[i].status = "Ok"
        /\ trace[i].val # <<>>
        /\ trace[i].val[1] = CH_E}

NoExchangeAfter(i) == \A j \in (i + 1)..Len(trace) : ~IsSend(trace[j])

\* C10 as the specification states it: once the reply to a chunk begins with
\* 'E', read_slice issues no further exchange and returns an error that
\* carries the reply's payload.
C10_ErrorReplyReturned ==
    (Current = "read_slice") =>
        \A i \in ErrorReplies :
            /\ NoExchangeAfter(i)
            /\ Returned =>
                /\ result.status = "Err"
                /\ result.err = "ServerError"
                /\ result.val = trace[i].val

\* C10: once the reply to a chunk of read_slice begins with 'E', read_slice
\* issues no further exchange and returns an error: the server error with
\* the reply's payload when the acknowledgment of the reply was written, the
\* write error when it was not.
C10_ErrorReplyAborts ==
    (Current = "read_slice") =>
        \A i \in ErrorReplies :
            /\ NoExchangeAfter(i)
            /\ Returned =>
                /\ Len(trace) = i + 1
                /\ trace[i + 1].call = "send_ack"
                /\ result.status = "Err"
                /\ IF trace[i + 1].status = "Ok"
                   THEN result.err = "ServerError" /\ result.val = trace[i].val
                   ELSE result.err = trace[i + 1].err /\ result.err # "ServerError"

\* the second of three chunks was answered with "E01"
C10_Witness ==
    /\ Returned
    /\ result.name = "read_slice"
    /\ result.err = "ServerError"
    /\ result.val = ERROR_REPLY
    /\ Len(Issued) = 2
    /\ SumLengths(Issued) < result.length

(***************************************************************************)
(* receive_packet: framing.                                                *)
(***************************************************************************)
\* the value of a hexadecimal digit
HexValue(c) == IF c <= 57 THEN c - 48 ELSE IF c <= 70 THEN c - 55 ELSE c - 87
IsHexDigit(c) == c \in (48..57) \cup (65..70) \cup (97..102)

\* f is '$', a payload, '#' and two hexadecimal digits
IsFrame(f) ==
    /\ Len(f) >= 4
    /\ f[1] = CH_DOLLAR
    /\ f[Len(f) - 2] = CH_HASH
    /\ IsHexDigit(f[Len(f) - 1])
    /\ IsHexDigit(f[Len(f)])
PayloadOf(f) == SubSeq(f, 2, Len(f) - 3)
RECURSIVE SumBytes(_)
SumBytes(p) == IF p = <<>> THEN 0 ELSE (Head(p) + SumBytes(Tail(p))) % 256
TransmittedChecksum(f) == 16 * HexValue(f[Len(f) - 1]) + HexValue(f[Len(f)])

\* a receive_packet call on an open socket whose first read brought a whole
\* frame with a checksum that is not the payload's
ReadsBadChecksum(e) ==
    /\ e.call = "receive_packet"
    /\ e.before
    /\ e.env.reads # <<>>
    /\ Head(e.env.reads).kind = "data"
    /\ IsFrame(Head(e.env.reads).bytes)
    /\ TransmittedChecksum(Head(e.env.reads).bytes)
         # SumBytes(PayloadOf(Head(e.env.reads).bytes))

\* while a checksum mismatch holds the stream down, no call but connect
\* reads or writes the socket
NoReadAfterMismatch ==
    \A e \in Events :
        (e.forced = "ChecksumMismatch" /\ e.call # "connect") =>
            /\ e.nread = 0
            /\ e.tx = <<>>
            /\ ~e.conn

\* C3 as the specification states it: a checksum mismatch makes receive_packet
\* return the checksum error and leaves the connection Disconnected.
C3_ChecksumErrorReturned ==
    /\ \A e \in Events :
        ReadsBadChecksum(e) => (e.status = "Err" /\ e.err = "ChecksumMismatch" /\ ~e.conn)
    /\ NoReadAfterMismatch

\* C3: a checksum mismatch makes receive_packet return an error and leaves
\* the connection Disconnected, after the one read that brought the frame:
\* the checksum error when the socket shut down cleanly, the shutdown's error
\* when it did not.  Nothing is read on that connection afterwards.
C3_ChecksumMismatchDisconnects ==
    /\ \A e \in Events :
        ReadsBadChecksum(e) =>
            /\ e.status = "Err"
            /\ e.err = (IF e.env.shutOk THEN "ChecksumMismatch" ELSE "ShutdownFailed")
            /\ ~e.conn
            /\ e.nread = 1
    /\ NoReadAfterMismatch

\* a frame with a damaged checksum digit was read and refused
C3_Witness ==
    \E e \in Events :
        /\ ReadsBadChecksum(e)
        /\ e.err = "ChecksumMismatch"
        /\ Len(PayloadOf(Head(e.env.reads).bytes)) >= 1
        /\ ~connected

\* C4: a reply that does not begin with '$' makes receive_packet return an
\* error and leaves the connection Disconnected; a connect() after it, to a
\* peer that completes the handshake, succeeds and leaves it Connected.
C4_NoStartMarker ==
    \A e \in Events :
        /\ (/\ e.call = "receive_packet"
            /\ e.before
            /\ e.env.reads # <<>>
            /\ Head(e.env.reads).kind = "data"
            /\ Head(e.env.reads).bytes[1] # CH_DOLLAR)
           => (e.status = "Err" /\ ~e.conn /\ e.violation = "NoStartMarker")
        /\ (/\ e.call = "connect"
            /\ e.forced = "NoStartMarker"
            /\ e.env = HealthyPeer)
           => (e.status = "Ok" /\ e.conn /\ e.tx = <<CH_PLUS>> /\ e.nread = 1)

\* the stream was reconnected after a reply without start marker
C4_Witness ==
    /\ connected
    /\ \E e \in Events :
        /\ e.call = "connect"
        /\ e.forced = "NoStartMarker"
        /\ e.status = "Ok"

\* what the reads deliver, end to end
RECURSIVE Delivered(_)
Delivered(reads) ==
    IF reads = <<>> THEN <<>> ELSE Head(reads).bytes \o Delivered(Tail(reads))

\* payload bytes that need no escaping: printable, neither '#' nor '$'
Plain(p) == \A i \in 1..Len(p) : p[i] \in (32..126) \ {CH_HASH, CH_DOLLAR}

\* C6: for every valid frame and every way its bytes are split across
\* non-empty reads, receive_packet returns the frame's payload.
C6_AnySplit ==
    \A e \in Events :
        (/\ e.call = "receive_packet"
         /\ e.before
         /\ e.env.reads # <<>>
         /\ \A i \in 1..Len(e.env.reads) :
              e.env.reads[i].kind = "data" /\ e.env.reads[i].bytes # <<>>
         /\ IsFrame(Delivered(e.env.reads))
         /\ Plain(PayloadOf(Delivered(e.env.reads)))
         /\ TransmittedChecksum(Delivered(e.env.reads))
              = SumBytes(PayloadOf(Delivered(e.env.reads))))
        => (e.status = "Ok" /\ e.val = PayloadOf(Delivered(e.env.reads)))

(***************************************************************************)
(* Properties of the update thread and of the state it shares.             *)
(***************************************************************************)
IsWriteStep(s) == s.step = "write"
IsReadStep(s) == s.step = "read"

\* the writes and the reads the update made so far, in the order it made them
WritesMade == SelectSeq(log, IsWriteStep)
ReadsMade == SelectSeq(log, IsReadStep)

\* the packets of the operation in progress that went out
PacketsOut == Len(Issued)

\* the operation of the client the thread is in, or was in last
InCall == IF pc \in {"idle", "panicked"} THEN result.name ELSE op.name

\* C11: halted during the flush/read phase.  While the update of a cycle runs,
\* no packet of a write or a read goes out unless the halt of that cycle
\* returned success: its packet acknowledged and answered with a reply that
\* is not an error.
C11_HaltedDuringUpdate == (wpc = "update" /\ PacketsOut > 0) => halt_ok

\* the registered addresses, in the order self.requests.iter() yields them
RECURSIVE Ascending(_)
Ascending(S) ==
    IF S = {} THEN <<>>
    ELSE LET a == CHOOSE x \in S : \A y \in S : x <= y
         IN  <<a>> \o Ascending(S \ {a})
Registered == {a \in Addrs : requests[a] # None}

WritesSent == [i \in 1..Len(WritesMade) |->
                 Write(WritesMade[i].address, WritesMade[i].data)]

\* the reply packets the operation in progress took
Replied == {e \in Events : e.call = "receive_packet" /\ e.status = "Ok"}

\* read_slice just returned success to the update, for the address cur
ReadReturned ==
    /\ wpc = "update"
    /\ Idle
    /\ log[Len(log)].step = "read"
    /\ result.status = "Ok"

\* C13: writes before reads.  Once the update of a cycle has called a read,
\* every write that was pending when the update began has been made, in
\* full and with success, and none is left; and when a read returns success,
\* the cache slot of its address holds the bytes of the reply the stub sent
\* to that read.
C13_WriteBeforeRead ==
    /\ (wpc = "update" /\ ReadsMade # <<>>) =>
        /\ writes = <<>>
        /\ WritesSent = pending0
        /\ \A i \in 1..Len(WritesMade) : WritesMade[i].status = "Ok"
    /\ ReadReturned =>
        \E e \in Replied :
            Settled[cur] = Some(hex_decode(e.val, requests[cur][1]).bytes)

\* C13 happens: a write to ADDR_A and a read of ADDR_A were made in one
\* cycle, and the reply to the read replaced the byte cached before
C13_Witness ==
    /\ ReadReturned
    /\ cur = ADDR_A
    /\ \E i \in 1..Len(WritesMade) : WritesMade[i].address = ADDR_A
    /\ data_objects[ADDR_A] = Some(<<BYTE_A5>>)
    /\ Settled[ADDR_A] = Some(<<0>>)

\* the errors of one operation that leave the connection usable: an error
\* reply of the stub, a reply of another length than the one asked for
RecoverableErrors == {"ServerError", "LengthMismatch"}

\* C14: independent reads.  When the update of a cycle returns after a read
\* that failed with a recoverable error, it has called a read of every
\* registered address.
C14_ReadsIndependent ==
    (/\ UpdateDone
     /\ log[Len(log)].step = "read"
     /\ result.err \in RecoverableErrors)
    => [i \in 1..Len(ReadsMade) |-> ReadsMade[i].address] = Ascending(Registered)

\* C15: cache miss.  Whenever the GUI thread can take the lock of the state,
\* get_data of an address of which no read has returned success so far
\* returns nothing.
C15_CacheMiss ==
    lock = "free" => \A a \in Addrs : a \notin fetched => get_data(a) = None

\* C16: the pending writes.  When the update of a cycle returns it has
\* called, once each and in the order request_write registered them, the
\* writes that were pending when it began.
C16_WritesInOrder == UpdateDone => WritesSent = pending0

\* C17: cancellation at the top of a cycle.  A queued Disconnect is taken off
\* the channel only when the thread is at the top of its loop with no
\* operation in progress, and taking it closes the connection; from then on
\* the thread is at the top of the loop or past it, calls nothing but
\* disconnect, and no packet goes out.
C17_CancelAtTop ==
    /\ [][chan' < chan =>
            /\ wpc = "top" /\ Idle
            /\ wpc' = "top" /\ pc' = "idle"
            /\ ~connected']_vars
    /\ [](cancelled =>
            /\ wpc \in {"top", "done"}
            /\ Idle
            /\ ~connected
            /\ InCall = "disconnect"
            /\ Sent = {})

\* C17 happens: cycles ran and fetched data, a Disconnect was queued and the
\* thread has just acted on it
C17_Witness ==
    /\ cancelled
    /\ wpc = "top"
    /\ fetched # {}
    /\ cpc = "joining"

\* C18: cancellation ends the thread.  Once a Disconnect is queued while the
\* thread is running, the thread eventually has closed the connection, left
\* its loop and cleared running.
C18_CancelEnds ==
    (chan > 0 /\ running) ~> (wpc = "done" /\ ~connected /\ ~running)

\* C19: the peer closing ends the thread.  Once a read of the socket has
\* returned zero bytes while the thread is running, the thread eventually has
\* left its loop, closed the connection and cleared running.
C19_PeerCloseEnds ==
    (peer_closed /\ running) ~> (wpc = "done" /\ ~connected /\ ~running)

\* receive_packet dropped the connection on a checksum mismatch or a missing
\* start marker, and nothing has connected since
ForcedDown == forced \in {"ChecksumMismatch", "NoStartMarker"}

\* C20: a forced disconnect ends the thread.  From the forced disconnect on
\* the connection stays down and no call writes a byte; the next step the
\* thread takes at the top of its loop leaves the loop and clears running;
\* running stays cleared; and the thread does get there.
C20_ForcedDisconnectEnds ==
    /\ [](ForcedDown =>
            /\ ~connected
            /\ \A e \in Events : ~e.before => e.tx = <<>>)
    /\ [][ForcedDown => (ForcedDown' /\ ~connected')]_vars
    /\ [][(ForcedDown /\ wpc = "top" /\ wpc' # wpc) =>
            (wpc' = "done" /\ ~running')]_vars
    /\ [][(wpc = "done") => (wpc' = "done" /\ ~running')]_vars
    /\ ForcedDown ~> (wpc = "done" /\ ~running)

\* C20 happens: a reply with a wrong checksum arrived during a cycle, and
\* the thread has ended
C20_Witness ==
    /\ forced = "ChecksumMismatch"
    /\ wpc = "done"
    /\ ~running
    /\ ~cancelled

\* the update thread is inside a call on the socket, or between two of them
\* in one operation
InNetworkCall == pc \in {"send_packet", "receive_ack", "receive_packet", "send_ack"}

\* C21: the GUI thread never waits for the network.  In no state is the GUI
\* thread waiting for the lock of the state while the update thread, which
\* holds it, is in a send or a receive on the socket.
C21_ConsumerNeverWaitsForNetwork == ~(cpc = "waiting" /\ InNetworkCall)

\* the calls of continue_execution made since the connect
ResumesIssued == {i \in 1..Len(resumes) : resumes[i] # "halt"}

\* the first stop_execution of the update thread has been called
FirstHaltIssued == \E i \in 1..Len(resumes) : resumes[i] = "halt"

\* C23 as stated: the resume command is issued exactly once between the
\* successful connect and the first halt.
C23_ResumedOnce == FirstHaltIssued => Cardinality(ResumesIssued) = 1

\* C23: initial resume.  Between the successful connect and the first halt
\* the resume command is issued exactly twice: once by DzvApp::connect, before
\* the update thread exists, and once by the update thread before its loop,
\* whatever requests are registered and whatever command is queued.
C23_ResumedByConnectAndThread ==
    /\ wpc \in {"spawn", "resume0"} => resumes = <<"connect">>
    /\ wpc \in {"top", "done"} =>
            \/ resumes = <<"connect", "thread">>
            \/ resumes = <<"connect", "thread", "halt">>
    /\ wpc \in {"lock", "update", "resume", "sleep"} =>
            resumes = <<"connect", "thread", "halt">>

\* C23 happens: the update thread has resumed the target before its first
\* halt, with a value requested and a command queued meanwhile
C23_Witness ==
    /\ wpc = "top"
    /\ resumes = <<"connect", "thread">>
    /\ InCall = "continue_execution"
    /\ chan > 0
    /\ requests # NoRequests

\* C24: nothing before the handshake.  The update thread exists, runs, and a
\* halt, read, write or resume is called only once connect has written one
\* '+', read one '+' and returned success.
C24_RunningAfterHandshake ==
    (\/ running
     \/ wpc # "none"
     \/ InCall \in {"stop_execution", "continue_execution", "read_slice",
                    "write_slice"})
        => handshake = Handshook

\* C24 happens: the handshake was made and the update thread is in a cycle,
\* reading a value
C24_Witness ==
    /\ handshake = Handshook
    /\ running
    /\ wpc = "update"
    /\ InCall = "read_slice"

\* C22: tick pacing.  next_time stays on the boundaries tick_start + k *
\* FRAME_TIME.  Once a cycle has advanced it, next_time is the smallest
\* boundary that is not earlier than the time read in that cycle, and the
\* duration the thread sleeps is next_time minus that time, at least zero and
\* less than FRAME_TIME.
C22_TickPacing ==
    /\ next_time >= tick_start
    /\ (next_time - tick_start) % FRAME_TIME = 0
    /\ tpc = "sleep" =>
            /\ next_time >= time
            /\ next_time - FRAME_TIME < time
            /\ SleepTime = next_time - time
            /\ SleepTime >= 0
            /\ SleepTime < FRAME_TIME

\* C22 happens: the first cycle took more than two frames, and next_time
\* skipped the two boundaries it missed
C22_Witness ==
    /\ tpc = "sleep"
    /\ ticks = 0
    /\ time = tick_start + 2 * FRAME_TIME + 1
    /\ next_time = tick_start + 3 * FRAME_TIME

\* the payloads of the replies received in a trace, decoded from hex and
\* concatenated in the order they arrived
RECURSIVE DecodedReplies(_)
DecodedReplies(t) ==
    IF t = <<>> THEN <<>>
    ELSE LET e == Head(t)
         IN  (IF e.call = "receive_packet" /\ e.status = "Ok"
              THEN hex_decode(e.val, Len(e.val) \div 2).bytes
              ELSE <<>>) \o DecodedReplies(Tail(t))

\* C25: what a read returns.  After read_slice returned success the caller's
\* buffer is the concatenation, in the order of the exchanges, of the
\* hex-decoded payloads of the replies to its exchanges, whatever was called
\* before and whatever the buffer held.
C25_ReadIsReplies ==
    (Idle /\ result.name = "read_slice" /\ result.status = "Ok")
        => result.buf = DecodedReplies(trace)

\* C25 happens: a read of three bytes in three exchanges returned the three
\* bytes the stub answered with, in their order
C25_Witness ==
    /\ Idle
    /\ result.name = "read_slice"
    /\ result.status = "Ok"
    /\ result.max_read_length = 1
    /\ result.buf = <<BYTE_A5, 0, BYTE_A5>>
    /\ Cardinality({i \in 1..Len(trace) : trace[i].call = "receive_packet"}) = 3

\* send_packet returned success, and receive_packet was called on all that it
\* wrote, every read filling the buffer as far as there were bytes
RoundTripped ==
    /\ Len(trace) = 2
    /\ trace[1].call = "send_packet"
    /\ trace[1].status = "Ok"
    /\ trace[2].call = "receive_packet"
    /\ trace[2].env.reads = FullReads(trace[1].tx)

\* C26: framing round trip.  For every payload P, receive_packet, given the
\* bytes send_packet(P) wrote, returns success and P.
C26_FramingRoundTrip ==
    RoundTripped => (trace[2].status = "Ok" /\ trace[2].val = op.data)

\* the lowercase hexadecimal digits and their values
LowerHexDigits == (48..57) \cup (97..102)
LowerHexValue(c) == IF c <= 57 THEN c - 48 ELSE c - 87

\* the sum of the bytes of p: every byte value times how often it occurs
RECURSIVE WeightedSum(_, _)
WeightedSum(p, vals) ==
    IF vals = {} THEN 0
    ELSE LET b == CHOOSE x \in vals : TRUE
         IN  b * Cardinality({i \in 1..Len(p) : p[i] = b})
             + WeightedSum(p, vals \ {b})
PayloadSum(p) == WeightedSum(p, {p[i] : i \in 1..Len(p)})

\* send_packet returned success
FrameSent == Len(trace) >= 1 /\ trace[1].call = "send_packet" /\ trace[1].status = "Ok"

\* C27: what send_packet writes.  send_packet(P) writes '$', the bytes of P,
\* '#' and two lowercase hexadecimal digits, nothing else, and the value of
\* the two digits is the sum of the bytes of P modulo 256.
C27_FrameWritten ==
    FrameSent =>
        LET tx == trace[1].tx
            n == Len(op.data)
        IN  /\ Len(tx) = n + 4
            /\ tx[1] = CH_DOLLAR
            /\ SubSeq(tx, 2, n + 1) = op.data
            /\ tx[n + 2] = CH_HASH
            /\ tx[n + 3] \in LowerHexDigits
            /\ tx[n + 4] \in LowerHexDigits
            /\ 16 * LowerHexValue(tx[n + 3]) + LowerHexValue(tx[n + 4])
                 = PayloadSum(op.data) % 256

\* C27 happens: the sum of the payload is below 16, and the frame ends in
\* the checksum padded with a '0'
C27_Witness ==
    /\ FrameSent
    /\ op.data = <<>>
    /\ trace[1].tx = <<CH_DOLLAR, CH_HASH, CH_ZERO, CH_ZERO>>

\* C28: hex codec round trip.  hex_encode(B) is two lowercase hexadecimal
\* digits for every byte of B, in the order of the bytes, and hex_decode of
\* it into a buffer as long as B returns success and leaves B in the buffer.
C28_HexRoundTrip ==
    /\ pc \in {"hex_decode", "hex_decoded"} =>
            /\ Len(op.response) = 2 * Len(op.data)
            /\ \A i \in 1..Len(op.data) :
                 /\ op.response[2 * i - 1] \in LowerHexDigits
                 /\ op.response[2 * i] \in LowerHexDigits
                 /\ 16 * LowerHexValue(op.response[2 * i - 1])
                      + LowerHexValue(op.response[2 * i]) = op.data[i]
    /\ (/\ pc = "hex_decoded"
        /\ result.val = op.response
        /\ result.length = Len(op.data))
           => (result.status = "Ok" /\ result.buf = op.data)

\* C28 happens: three bytes, one of them below 16, were encoded and decoded
C28_Witness ==
    /\ pc = "hex_decoded"
    /\ op.data = <<10, BYTE_FF, 0>>
    /\ result.val = op.response
    /\ result.status = "Ok"
    /\ result.buf = <<10, BYTE_FF, 0>>

\* C29: the length error of hex_decode.  A string whose length is not twice
\* the length of the buffer, be it shorter, longer or odd, makes hex_decode
\* return the length error, and the buffer holds what it held.
C29_HexLengthError ==
    (pc = "hex_decoded" /\ Len(result.val) # 2 * result.length)
        => /\ result.status = "Err"
           /\ result.err = "Length"
           /\ result.buf = HexBuffer(result.length)

\* C29 happens: a string of five characters was refused for a buffer of two
\* bytes, which kept its contents
C29_Witness ==
    /\ pc = "hex_decoded"
    /\ Len(result.val) = 5
    /\ result.length = 2
    /\ result.status = "Err"
    /\ result.buf = <<BYTE_FF, BYTE_FF>>

\* the addresses the update of this cycle has called a read for
ReadThisCycle == {ReadsMade[i].address : i \in 1..Len(ReadsMade)}

\* C30: the fetch set follows the GUI.  The update of a cycle reads no
\* address for which State::request has not been called since the update of
\* the cycle before returned.
C30_ReadsOnlyAsked == wpc = "update" => ReadThisCycle \subseteq asked

\* the reads the update of this cycle has called for address a
ReadsOf(a) == {i \in 1..Len(ReadsMade) : ReadsMade[i].address = a}

\* State::request changed nothing but the length registered for one address
RequestFrame ==
    /\ \E a \in Addrs :
        /\ requests'[a] # None
        /\ \A b \in Addrs \ {a} : requests'[b] = requests[b]
    /\ writes' = writes
    /\ data_objects' = data_objects

\* C31: what request registers.  request(A, n) replaces the length registered
\* for A by n and changes no other registration, no pending write and nothing
\* of the cache; and when the next update returns, it has called exactly one
\* read for every registered address, with the length registered for it.
C31_RequestIsRead ==
    /\ [][requests' # requests => RequestFrame]_vars
    /\ [](UpdateDone =>
            \A a \in Registered :
                /\ Cardinality(ReadsOf(a)) = 1
                /\ \A i \in ReadsOf(a) : ReadsMade[i].data = <<requests[a][1]>>)

\* C32: disconnect is idempotent.  Whatever the state it is called in and
\* whether the shutdown of the socket succeeds or not, disconnect leaves the
\* handle cleared; called without a handle it returns Ok, writes nothing to
\* any socket and leaves the state as it was.
C32_DisconnectIdempotent ==
    \A e \in Events :
        e.call = "disconnect" =>
            /\ ~e.conn
            /\ ~is_connected(connected)
            /\ ~e.before =>
                    /\ e.status = "Ok"
                    /\ e.tx = <<>>
                    /\ e.nread = 0
                    /\ e.conn = e.before

\* disconnect has been called on a stream that had no handle
C32_Witness ==
    \E e \in Events :
        /\ e.call = "disconnect"
        /\ ~e.before
        /\ e.status = "Ok"

\* the calls of the transport that need the socket
SocketCalls == {"send_packet", "send_ack", "receive_ack", "receive_packet"}

\* the operations of the client that begin with send_packet
SocketOps == {"read_slice", "write_slice", "stop_execution", "continue_execution"}

\* the operation that returned last was called on a client without a handle
CalledDisconnected == IF trace = <<>> THEN ~connected ELSE ~trace[1].before

\* a transport call made without a handle: the not-connected error, nothing
\* written, nothing read, still no handle
RefusedCalls ==
    \A e \in Events :
        (e.call \in SocketCalls /\ ~e.before) =>
            /\ e.status = "Err"
            /\ e.err = "NotConnected"
            /\ e.tx = <<>>
            /\ e.nread = 0
            /\ ~e.conn

HandshakeErrors == {"WriteFailed", "ReadFailed", "BadAck"}

\* C34: a failed handshake leaves the client Disconnected.  When connect
\* returns an error because the initial '+' could not be sent, the answer
\* could not be read or the answer was another byte than '+', the stream has
\* no handle and is_connected() is false.
C34_FailedHandshakeDisconnects ==
    \A e \in Events :
        (e.call = "connect" /\ e.status = "Err" /\ e.err \in HandshakeErrors) =>
            /\ ~e.conn
            /\ ~is_connected(connected)

\* C35: read_slice terminates.  For every negotiated packet size S >= 0 and
\* every buffer length L the computation of the bound does not underflow, the
\* bound is at least 1, every exchange asks for at least one byte, and so
\* read_slice makes at most L exchanges before it returns.
C35_ReadTerminates ==
    (Current = "read_slice") =>
        /\ ~(result.status = "Panic" /\ result.err = "SubtractOverflow")
        /\ CurBound >= 1
        /\ \A i \in Exchanges(trace) : trace[i].arg.length >= 1
        /\ Cardinality(Exchanges(trace)) <= CurLength

\* C36: receive_packet never panics.  Whatever bytes the socket yields and
\* however they are split across reads, a first read of fewer than three
\* bytes included, receive_packet returns a payload or an error: it never
\* indexes the buffer before its start.
C36_ReceiveNeverPanics ==
    \A e \in Events :
        e.call = "receive_packet" =>
            /\ e.status \in {"Ok", "Err"}
            /\ e.err # "IndexOutOfBounds"

\* C37: a failed read leaves the cache alone.  When the read of a registered
\* address fails during update, get_data of that address returns after the
\* cycle what it returned before it: the cached bytes have not been resized,
\* zero-filled or overwritten in part.
C37_FailedReadKeepsCache ==
    (/\ UpdateDone
     /\ log[Len(log)].step = "read"
     /\ result.status # "Ok") => Settled[cur] = cache0[cur]

\* the packet of the i-th write that was pending when the update began has
\* gone out
WriteTransmitted(i) ==
    \/ i < Len(WritesMade)
    \/ /\ i = Len(WritesMade)
       /\ log[Len(log)].step = "write" => Sent # {}

\* C38: no pending write is lost.  When the update releases the state, every
\* write that was pending when it began has had its packet sent or is still
\* in the pending list: a write leaves the list only once its exchange was
\* sent, and the writes behind one that failed stay to be transmitted.
C38_NoWriteLost ==
    [][(lock = "worker" /\ lock' = "free") =>
         \A i \in 1..Len(pending0) :
            \/ WriteTransmitted(i)
            \/ \E j \in 1..Len(writes') : writes'[j] = pending0[i]]_vars

\* C39: exit ends the thread.  Once View::exit has returned Ok the update
\* thread has terminated and the connection is closed, whatever the
\* interleaving: also when exit is called before the thread that was just
\* spawned has set running.
C39_ExitEndsThread == cpc = "exited" => (wpc = "done" /\ ~connected)

\* C40: the target is left running.  When the thread has taken a Disconnect
\* command and no socket call of an exchange has failed since the connect,
\* the execution-control command whose packet went out last on the
\* connection is the resume command 'c', never the halt command 's'.
C40_ResumeLast ==
    (cancelled /\ ctl # None /\ ctl[1].clean) => ctl[1].last = CH_LOWER_C

\* the thread has ended on a Disconnect after a cycle that halted the target
\* and read, no socket call having failed
C40_Witness ==
    /\ cancelled
    /\ wpc = "done"
    /\ fetched # {}
    /\ ctl # None
    /\ ctl[1].clean
    /\ ctl[1].last = CH_LOWER_C
====
